---- MODULE Spec2Model ----
(***************************************************************************)
(* Verification model of the media-consumption dashboard.                  *)
(*                                                                         *)
(*  Part I   the two-tier client cache (utils/cache.js, class DataCache):  *)
(*           memory Map + IndexedDB object store, 24 hour expiration.      *)
(*  Part II  the history aggregation of the three views (MoviesView,       *)
(*           TVShowsView, ComicBooksView): normalisation, sort, dedup,     *)
(*           year buckets, top-3 per year.                                 *)
(*                                                                         *)
(* Each part has its own specification; the variables of the other part    *)
(* stay at their initial values.                                           *)
(***************************************************************************)
EXTENDS Integers, Sequences, FiniteSets, TLC

VARIABLES
  \* ---- Part I: DataCache ----
  memoryCache,   \* this.memoryCache : key -> [value, timestamp] (a partial function)
  db,            \* this.db : "null" or "open"
  idb,           \* the IndexedDB object store 'data' : key -> [value, timestamp]
  now,           \* Date.now(), in milliseconds
  calls,         \* the get/set calls suspended at an await, in the order issued
  last,          \* the call that completed last, with what it returned
  sinceClear,    \* TRUE from a clear() until the next set() stores something
  justSet,       \* {<<k, v>>} right after an undisturbed set(k, v) returned, else {}
  ticks,         \* how often the clock advanced (bounds the model)
  \* ---- Part II: the views ----
  view,          \* the mounted view (App): "movies", "tv", "comics" (ComicBooksView of
                 \* MoviesView.jsx line 530) or "comics-by-read-year" (ComicBooksView.jsx)
  snapshot,      \* data.response.data.data of the view's static JSON file
  loading,       \* useState loading
  movies,        \* MoviesView: useState movies (deduplicated display list)
  shows,         \* TVShowsView: useState shows
  comics,        \* ComicBooksView: useState comics
  allWatchData,  \* useState allWatchData / allReadData (complete list)
  years,         \* useState years
  rankings,      \* useState rankings (the ranking list of the content type)
  rankingFile,   \* the ranking JSON file of the content type
  viewCache,     \* what the view stored with cache.set: <<>> or <<entry>>
  moved,         \* the event whose timestamp the last snapshot change moved, or 0
  prior,         \* the view's lists when the snapshot was changed
  \* the ranking editor (AdminRankingTab) and the Rankings tab (RankingTab)
  activeTab,     \* the tab the view renders: "main", "ranking" or "admin"
  adminRankings, \* AdminRankingTab's rankings state
  isLoading,     \* AdminRankingTab's isLoading state
  localStorage,  \* the value under the content type's localStorage key
  posts,         \* the POST requests of saveRankings that are in flight
  lastEdit,      \* what the last add, remove or drop did, or NoEdit
  edits,         \* number of edits made so far
  tabRankings,   \* RankingTab's rankings state
  tabLoading,    \* TRUE while a loadRankings of RankingTab is in flight
  lastSaved,     \* <<>> or <<list>>: the list of the last successful save
  saveLog,       \* whether a save was answered before an older one, or failed
  \* the Express server
  plexToken,     \* process.env.PLEX_TOKEN of this run of the server
  files,         \* the ranking files on disk: file name -> what the file holds
  posted,        \* the successful POSTs of rankings so far, oldest first
  reply,         \* the last request answered and its response, or NoReply
  history,       \* the /api/history request in flight, or Idle
  served,        \* number of requests the server has taken
  \* the data-fetch scripts
  komga,         \* fetchBooks / fetchSeries: dataset -> the state of its page loop
  scriptToken,   \* process.env.PLEX_TOKEN of this run of the fetch script
  entries,       \* movieEntries: the unique [ratingKey, thumbPath] pairs, in order
  posterFiles,   \* the rating keys that have a file in the posters directory
  batchStart,    \* the loop variable i of the batch loop
  batch,         \* the downloadPoster calls of the current batch: [pc, ...]
  attempts,      \* per entry, the requests its downloadPoster calls have sent
  downloaded,    \* the counter downloaded
  skipped,       \* the counter skipped
  run            \* where generateStaticData is: "batches", "awaiting", "saved"

cacheVars == <<memoryCache, db, idb, now, calls, last, sinceClear, justSet, ticks>>
viewVars == <<view, snapshot, loading, movies, shows, comics, allWatchData, years,
              rankings, rankingFile, viewCache, moved, prior>>

editorVars == <<activeTab, adminRankings, isLoading, localStorage, posts, lastEdit,
                edits, tabRankings, tabLoading, lastSaved, saveLog>>
serverVars == <<plexToken, files, posted, reply, history, served>>
scriptVars == <<komga, scriptToken, entries, posterFiles, batchStart, batch,
                attempts, downloaded, skipped, run>>

vars == <<cacheVars, viewVars, editorVars, serverVars, scriptVars>>

\* The state of the ranking editor before the admin tab is opened.
NoEdit == [op |-> "none"]
AnsweredInOrder == [overtaken |-> FALSE, failed |-> FALSE]
NoEditor ==
  /\ activeTab = "main"
  /\ adminRankings = <<>>
  /\ isLoading = TRUE
  /\ localStorage = <<>>
  /\ posts = <<>>
  /\ lastEdit = NoEdit
  /\ edits = 0
  /\ tabRankings = <<>>
  /\ tabLoading = FALSE
  /\ lastSaved = <<>>
  /\ saveLog = AnsweredInOrder

\* The state of the server before it takes a request.
Idle == [phase |-> "idle"]
NoReply == [route |-> "none"]
NoServer ==
  /\ plexToken = ""
  /\ files = <<>>
  /\ posted = <<>>
  /\ reply = NoReply
  /\ history = Idle
  /\ served = 0

\* The state of the fetch scripts before they are run.
Datasets == {"books", "series"}
NotCalled == [pc |-> "start", page |-> 0, all |-> <<>>, requested |-> <<>>,
              received |-> <<>>, result |-> <<>>]
NoKomga == komga = [d \in Datasets |-> NotCalled]
NoPosters ==
  /\ scriptToken = ""
  /\ entries = <<>>
  /\ posterFiles = {}
  /\ batchStart = 0
  /\ batch = <<>>
  /\ attempts = <<>>
  /\ downloaded = 0
  /\ skipped = 0
  /\ run = "batches"
NoScripts == NoKomga /\ NoPosters


(***************************************************************************)
(*                         Part I: DataCache                               *)
(***************************************************************************)

\* const CACHE_EXPIRATION_MS = 24 * 60 * 60 * 1000
CACHE_EXPIRATION_MS == 24 * 60 * 60 * 1000

\* Bounds of the cache model.
MaxCalls == 2          \* calls suspended at an await at the same time
MaxTicks == 2          \* clock steps

\* The clock advances in steps of half the expiration window.
ClockStep == CACHE_EXPIRATION_MS \div 2
\* Date.now() when the page is loaded (any instant far from the epoch).
StartTime == 4 * CACHE_EXPIRATION_MS

CacheKeys == {"movies-prod", "rankings-movies"}
\* The dataset this page load stores; the other key is held by the durable
\* store from an earlier page load and is only read and cleared.
WrittenKeys == {"rankings-movies"}
\* JSON-serializable values; JsNull is JavaScript's null, which get() also
\* returns for a miss.
JsNull == "null"
CacheValues == {"v1", JsNull}

Entry(v, t) == [value |-> v, timestamp |-> t]

\* What a previous session of the same browser profile can have left in the
\* durable store: nothing, a young entry, or one exactly as old as the window.
LeftOver == {Entry("v0", StartTime - ClockStep), Entry("v0", StartTime - CACHE_EXPIRATION_MS)}

\* Date.now() - timestamp < CACHE_EXPIRATION_MS   (cache.js lines 37 and 57)
IsFreshOffByOne(e, t) == t - e.timestamp <= CACHE_EXPIRATION_MS
IsFresh(e, t) == t - e.timestamp < CACHE_EXPIRATION_MS

\* Map.prototype.set / delete on a partial function.
MapSet(m, k, e) == [x \in (DOMAIN m) \cup {k} |-> IF x = k THEN e ELSE m[x]]
MapDelete(m, k) == [x \in (DOMAIN m) \ {k} |-> m[x]]
EmptyMap == [x \in {} |-> Entry(JsNull, 0)]

NoCall == [op |-> "none", key |-> "", outcome |-> "none", value |-> JsNull,
           age |-> 0, afterClear |-> FALSE, afterSet |-> {},
           hadExpired |-> FALSE, storeRead |-> FALSE]

Hits == {"hit-memory", "hit-idb"}

\* A finished get(): what it resolved to and by which path.
GetReturn(c, outcome, v, t, read) ==
  [op |-> "get", key |-> c.key, outcome |-> outcome, value |-> v,
   age |-> IF outcome \in Hits THEN now - t ELSE 0,
   afterClear |-> c.afterClear, afterSet |-> c.afterSet,
   hadExpired |-> c.hadExpired, storeRead |-> read]

\* The catch block of get() (lines 75-78): the failure is logged and the
\* call resolves to null.
GetCaughtRethrown(c) == GetReturn(c, "rejected", JsNull, 0, FALSE)
GetCaught(c) == GetReturn(c, "error", JsNull, 0, FALSE)

\* A finished set(): raced tells that it overlapped other set() calls of the
\* same key, that none of them is still suspended, that none of them failed
\* and that no get() or clear() changed a tier under them; winner is then the
\* entry of the one of them that was called last.
SetReturn(c, outcome, settled) ==
  LET raced == /\ c.older \/ c.newer # {}
               /\ settled /\ ~c.spoilt /\ outcome = "ok"
  IN  [op |-> "set", key |-> c.key, outcome |-> outcome, value |-> c.value,
       age |-> 0, afterClear |-> FALSE, afterSet |-> {},
       hadExpired |-> FALSE, storeRead |-> FALSE,
       raced |-> raced,
       winner |-> IF raced /\ c.newer # {}
                  THEN Entry(CHOOSE v \in c.newer : TRUE, c.timestamp)
                  ELSE Entry(c.value, c.timestamp)]

Remove(s, i) == SubSeq(s, 1, i - 1) \o SubSeq(s, i + 1, Len(s))

\* Another call or a clear() ran while these calls were suspended.
Disturb(s) == [i \in DOMAIN s |-> [s[i] EXCEPT !.solo = FALSE]]
\* A set() stored something while these calls were suspended.
Stored(s) == [i \in DOMAIN s |-> [s[i] EXCEPT !.afterClear = FALSE]]

\* The suspended set() calls of key k.
PendingSets(s, k) == {i \in DOMAIN s : s[i].op = "set" /\ s[i].key = k}
\* A get() or clear() changed a tier under the suspended set() calls of the
\* keys K, or one of the set() calls of these keys failed.
Spoil(s, K) ==
  [i \in DOMAIN s |-> IF s[i].op = "set" /\ s[i].key \in K
                       THEN [s[i] EXCEPT !.spoilt = TRUE, !.older = FALSE,
                                         !.newer = {}]
                       ELSE s[i]]
\* set(k, v) was called again while these calls were suspended.  (No call
\* is suspended across a clock step, so the new call has their timestamp.)
Overtaken(s, k, v) ==
  [i \in DOMAIN s |-> IF s[i].op = "set" /\ s[i].key = k /\ ~s[i].spoilt
                       THEN [s[i] EXCEPT !.newer = {v}] ELSE s[i]]

\* indexedDB.open requests succeed or fail in the order they were made.
FirstOpening(i) == \A j \in 1..(i - 1) : calls[j].pc # "opening"

\* No view is mounted.
NoView ==
  /\ view = "none" /\ snapshot = <<>> /\ loading = TRUE
  /\ movies = <<>> /\ shows = <<>> /\ comics = <<>>
  /\ allWatchData = <<>> /\ years = <<>> /\ rankings = <<>>
  /\ rankingFile = <<>> /\ viewCache = <<>> /\ moved = 0 /\ prior = <<>>

InitCache ==
  /\ NoEditor
  /\ NoServer
  /\ NoScripts
  /\ memoryCache = EmptyMap
  /\ db = "null"
  /\ idb \in UNION {[D -> LeftOver] : D \in SUBSET CacheKeys}
  /\ now = StartTime
  /\ calls = <<>>
  /\ last = NoCall
  /\ sinceClear = FALSE
  /\ justSet = {}
  /\ ticks = 0
  /\ NoView

\* Time passes between calls (a durable-store request takes far less than a
\* clock step, so no call is suspended across one).
Tick ==
  /\ calls = <<>>
  /\ ticks < MaxTicks
  /\ now' = now + ClockStep
  /\ ticks' = ticks + 1
  /\ justSet' = {}
  /\ last' = NoCall
  /\ UNCHANGED <<memoryCache, db, idb, calls, sinceClear>>
  /\ UNCHANGED <<viewVars, editorVars, serverVars, scriptVars>>

\* The memory tier after lines 35-43 of get(key): an entry that is not fresh
\* is deleted.
MemoryAfterCheck(k) ==
  IF k \in DOMAIN memoryCache /\ ~IsFresh(memoryCache[k], now)
  THEN MapDelete(memoryCache, k) ELSE memoryCache

\* The store.get(key) request of lines 48-50: its result is what the store
\* holds when the transaction is created.
ReadRequest(k) == IF k \in DOMAIN idb THEN {idb[k]} ELSE {}

\* async get(key), up to its first suspension.
Get(k, ok) ==
  /\ Len(calls) < MaxCalls
  /\ LET c == [op |-> "get", key |-> k, value |-> JsNull, timestamp |-> 0,
               pc |-> "opening", res |-> {}, solo |-> FALSE,
               older |-> FALSE, newer |-> {}, spoilt |-> FALSE,
               afterClear |-> sinceClear,
               afterSet |-> {p \in justSet : p[1] = k},
               hadExpired |-> \/ (k \in DOMAIN memoryCache /\ ~IsFresh(memoryCache[k], now))
                              \/ (k \in DOMAIN idb /\ ~IsFresh(idb[k], now))]
     IN IF k \in DOMAIN memoryCache /\ IsFresh(memoryCache[k], now)
        THEN \* lines 36-39: memory hit
             /\ last' = GetReturn(c, "hit-memory", memoryCache[k].value,
                                  memoryCache[k].timestamp, FALSE)
             /\ UNCHANGED <<memoryCache, calls>>
        ELSE /\ memoryCache' = MemoryAfterCheck(k)
             /\ IF db = "null"
                THEN \* line 47: await this.initDB() opens the database
                     /\ calls' = Append(Disturb(calls), c)
                     /\ last' = NoCall
                ELSE IF ok
                THEN \* lines 48-50: the read request is made
                     /\ calls' = Append(Disturb(calls),
                                        [c EXCEPT !.pc = "reading", !.res = ReadRequest(k)])
                     /\ last' = NoCall
                ELSE \* lines 75-78: this.db.transaction threw
                     /\ last' = GetCaught(c)
                     /\ calls' = Disturb(calls)
  /\ justSet' = {}
  /\ UNCHANGED <<db, idb, now, sinceClear, ticks>>
  /\ UNCHANGED <<viewVars, editorVars, serverVars, scriptVars>>

\* The indexedDB.open request of a suspended get() succeeds (ok) or fails.
GetOpened(i, ok) ==
  /\ i \in DOMAIN calls
  /\ calls[i].op = "get" /\ calls[i].pc = "opening"
  /\ FirstOpening(i)
  /\ IF ok
     THEN /\ db' = "open"
          /\ calls' = [calls EXCEPT ![i].pc = "reading",
                                    ![i].res = ReadRequest(calls[i].key)]
          /\ last' = NoCall
     ELSE \* request.onerror rejects; lines 75-78 return null
          /\ last' = GetCaught(calls[i])
          /\ calls' = Remove(calls, i)
          /\ UNCHANGED db
  /\ UNCHANGED <<memoryCache, idb, now, sinceClear, justSet, ticks>>
  /\ UNCHANGED <<viewVars, editorVars, serverVars, scriptVars>>

\* request.onsuccess (lines 53-72) or request.onerror (line 73) of the read.
GetSuccess(i, ok) ==
  /\ i \in DOMAIN calls
  /\ calls[i].op = "get" /\ calls[i].pc = "reading"
  /\ LET c == calls[i]
         k == c.key
     IN IF ~ok
        THEN /\ last' = GetReturn(c, "error", JsNull, 0, FALSE)
             /\ UNCHANGED <<memoryCache, idb>>
        ELSE IF c.res = {}
        THEN /\ last' = GetReturn(c, "miss", JsNull, 0, TRUE)
             /\ UNCHANGED <<memoryCache, idb>>
        ELSE LET result == CHOOSE e \in c.res : TRUE
             IN IF result.timestamp # 0 /\ IsFresh(result, now)
                THEN \* lines 58-61: promote to the memory tier
                     /\ memoryCache' = MapSet(memoryCache, k, result)
                     /\ last' = GetReturn(c, "hit-idb", result.value, result.timestamp, TRUE)
                     /\ UNCHANGED idb
                ELSE IF result.timestamp # 0
                THEN \* lines 63-67: delete the expired record
                     /\ idb' = MapDelete(idb, k)
                     /\ last' = GetReturn(c, "expired", JsNull, result.timestamp, TRUE)
                     /\ UNCHANGED memoryCache
                ELSE /\ last' = GetReturn(c, "miss", JsNull, 0, TRUE)
                     /\ UNCHANGED <<memoryCache, idb>>
  /\ calls' = IF memoryCache' # memoryCache \/ idb' # idb
              THEN Spoil(Remove(calls, i), {calls[i].key})
              ELSE Remove(calls, i)
  /\ UNCHANGED <<db, now, sinceClear, justSet, ticks>>
  /\ UNCHANGED <<viewVars, editorVars, serverVars, scriptVars>>

\* The memory tier after line 84 of set(key, value).
MemoryAfterSetNotStored(k, v, t) == memoryCache
MemoryAfterSet(k, v, t) == MapSet(memoryCache, k, Entry(v, t))

\* async set(key, value), up to its first suspension.
Set(k, v, ok) ==
  /\ Len(calls) < MaxCalls
  /\ memoryCache' = MemoryAfterSet(k, v, now)
  /\ LET c == [op |-> "set", key |-> k, value |-> v, timestamp |-> now,
               pc |-> "opening", res |-> {}, solo |-> calls = <<>>,
               older |-> PendingSets(calls, k) # {}, newer |-> {}, spoilt |-> FALSE,
               afterClear |-> FALSE, afterSet |-> {}, hadExpired |-> FALSE]
         others == Overtaken(Stored(Disturb(calls)), k, v)
     IN IF db = "null"
        THEN \* line 88: await this.initDB() opens the database
             /\ calls' = Append(others, c)
             /\ justSet' = {}
             /\ last' = NoCall
             /\ UNCHANGED idb
        ELSE \* lines 89-92: put, or lines 93-95 when the store fails
             /\ idb' = IF ok THEN MapSet(idb, k, Entry(v, now)) ELSE idb
             /\ last' = SetReturn(c, IF ok THEN "ok" ELSE "error",
                                  PendingSets(calls, k) = {})
             /\ calls' = IF ok THEN others ELSE Spoil(others, {k})
             /\ justSet' = IF calls = <<>> THEN {<<k, v>>} ELSE {}
  /\ sinceClear' = FALSE
  /\ UNCHANGED <<db, now, ticks>>
  /\ UNCHANGED <<viewVars, editorVars, serverVars, scriptVars>>

\* The indexedDB.open request of a suspended set() succeeds (ok) or fails.
SetOpened(i, ok) ==
  /\ i \in DOMAIN calls
  /\ calls[i].op = "set" /\ calls[i].pc = "opening"
  /\ FirstOpening(i)
  /\ LET c == calls[i]
     IN /\ db' = IF ok THEN "open" ELSE db
        /\ idb' = IF ok THEN MapSet(idb, c.key, Entry(c.value, c.timestamp)) ELSE idb
        /\ last' = SetReturn(c, IF ok THEN "ok" ELSE "error",
                             PendingSets(Remove(calls, i), c.key) = {})
        /\ calls' = IF ok THEN Stored(Remove(calls, i))
                    ELSE Spoil(Stored(Remove(calls, i)), {c.key})
        /\ justSet' = IF c.solo /\ Len(calls) = 1 THEN {<<c.key, c.value>>} ELSE {}
  /\ sinceClear' = FALSE
  /\ UNCHANGED <<memoryCache, now, ticks>>
  /\ UNCHANGED <<viewVars, editorVars, serverVars, scriptVars>>

\* clear() (lines 98-105); ok = FALSE: this.db.transaction throws.
Clear(ok) ==
  /\ memoryCache' = EmptyMap
  /\ idb' = IF db # "null" /\ ok THEN EmptyMap ELSE idb
  /\ last' = [NoCall EXCEPT !.op = "clear",
                            !.outcome = IF db = "null" \/ ok THEN "ok" ELSE "error"]
  /\ calls' = Spoil(Disturb(calls), CacheKeys)
  /\ sinceClear' = TRUE
  /\ justSet' = {}
  /\ UNCHANGED <<db, now, ticks>>
  /\ UNCHANGED <<viewVars, editorVars, serverVars, scriptVars>>

NextCache ==
  \/ Tick
  \/ \E k \in CacheKeys, ok \in BOOLEAN : Get(k, ok)
  \/ \E i \in 1..MaxCalls, ok \in BOOLEAN : GetOpened(i, ok)
  \/ \E i \in 1..MaxCalls, ok \in BOOLEAN : GetSuccess(i, ok)
  \/ \E k \in WrittenKeys, v \in CacheValues, ok \in BOOLEAN : Set(k, v, ok)
  \/ \E i \in 1..MaxCalls, ok \in BOOLEAN : SetOpened(i, ok)
  \/ \E ok \in BOOLEAN : Clear(ok)

SpecCache == InitCache /\ [][NextCache]_vars

(***************************************************************************)
(*                     Part I: properties of the cache                     *)
(***************************************************************************)

\* An entry of the tier m under key k that is not fresh any more.
HoldsExpired(m, k) == k \in DOMAIN m /\ ~IsFresh(m[k], now)

\* C1: a get(k) that directly follows a completed set(k, v), with nothing
\* else run on the cache in between, is a hit and returns v, whether or not
\* the durable store could be opened.
CacheRoundTrip ==
  (last.op = "get" /\ last.afterSet # {}) =>
     /\ last.outcome \in Hits
     /\ \A p \in last.afterSet : p[1] = last.key /\ last.value = p[2]

\* C1 witness: set(k, "v1") returned while the database could not be opened,
\* and the get that followed it has returned.
CacheRoundTripWitness ==
  /\ last.op = "get" /\ last.afterSet = {<<last.key, "v1">>}
  /\ db = "null"
  /\ last.key \in DOMAIN idb /\ idb[last.key].value = "v0"

\* C2 as stated: whenever a tier held an expired entry under k when get(k)
\* was called, the get is a miss and afterwards neither tier holds an
\* expired entry under k.
ExpiredEntryIsMissAndGone ==
  (last.op = "get" /\ last.hadExpired) =>
     /\ last.outcome \notin Hits
     /\ ~HoldsExpired(memoryCache, last.key)
     /\ ~HoldsExpired(idb, last.key)

\* C2 amended: get never returns an entry that is CACHE_EXPIRATION_MS old or
\* older; after a get(k) the memory tier holds no expired entry under k; and
\* if the get read the durable store, that store holds no expired entry under
\* k either (an expired one was deleted and reported as a miss).
ExpiredEntryHandling ==
  (last.op = "get") =>
     /\ (last.outcome \in Hits => last.age < CACHE_EXPIRATION_MS)
     /\ ~HoldsExpired(memoryCache, last.key)
     /\ (last.storeRead => ~HoldsExpired(idb, last.key))

\* C2 witness: a get found the durable entry expired, reported a miss and
\* deleted it.
ExpiredEntryWitness ==
  /\ last.op = "get" /\ last.outcome = "expired" /\ last.hadExpired
  /\ last.key \notin DOMAIN idb
  /\ last.key \notin DOMAIN memoryCache

\* C3 as stated: a get(k) called after clear() returned, with no set() in
\* between, is a miss for every key, also when clear() ran before this
\* instance had opened the database.
ClearEmptiesBothTiers ==
  (last.op = "get" /\ last.afterClear) => last.outcome \notin Hits

(***************************************************************************)
(*                  Part II: the history aggregation                       *)
(***************************************************************************)

\* Bounds of the aggregation model.
MaxEvents == 3         \* records in a snapshot file
MaxRank == 4           \* entries in a ranking list

\* ---- dates -------------------------------------------------------------
\* A record's `date` is a number (Unix seconds) or an ISO string
\* "YYYY-MM-DD"; a Date object is represented by its time value in seconds
\* (getTime() / 1000), the browser's time zone is UTC.

\* Date.parse of "YYYY-MM-DD": days since the epoch of a civil date, times
\* the seconds of a day.
DaysFromCivil(y, m, d) ==
  LET yy  == IF m <= 2 THEN y - 1 ELSE y
      era == yy \div 400
      yoe == yy - era * 400
      mp  == IF m > 2 THEN m - 3 ELSE m + 9
      doy == (153 * mp + 2) \div 5 + d - 1
      doe == yoe * 365 + yoe \div 4 - yoe \div 100 + doy
  IN era * 146097 + doe - 719468

DateParse(ymd) == DaysFromCivil(ymd[1], ymd[2], ymd[3]) * 86400

\* Date.prototype.getFullYear of a time value.
GetFullYear(secs) ==
  LET z   == secs \div 86400 + 719468
      era == z \div 146097
      doe == z - era * 146097
      yoe == (doe - doe \div 1460 + doe \div 36524 - doe \div 146096) \div 365
      doy == doe - (365 * yoe + yoe \div 4 - yoe \div 100)
      mp  == (5 * doy + 2) \div 153
      m   == IF mp < 10 THEN mp + 3 ELSE mp - 9
  IN yoe + era * 400 + (IF m <= 2 THEN 1 ELSE 0)

NumberDate(ymd) == [kind |-> "number", secs |-> DateParse(ymd), ymd |-> <<0, 0, 0>>]
StringDate(ymd) == [kind |-> "string", secs |-> 0, ymd |-> ymd]
NoDate == [kind |-> "undefined", secs |-> 0, ymd |-> <<0, 0, 0>>]

\* The year a timestamp lies in, read off the timestamp itself.
TrueYear(d) == IF d.kind = "number" THEN GetFullYear(d.secs) ELSE d.ymd[1]

\* The days on which something was watched or read.
Days == {<<2023, 6, 1>>, <<2024, 1, 1>>, <<2024, 6, 1>>}
\* One day per year.
YearDays == {<<2023, 6, 1>>, <<2024, 6, 1>>}
DatesOf(kind) == {IF kind = "number" THEN NumberDate(d) ELSE StringDate(d) : d \in Days}
Years == {GetFullYear(DateParse(d)) : d \in Days}

\* new Date() when the page is loaded.
Today == DateParse(<<2024, 7, 1>>)

\* "Handle date - could be Unix timestamp or ISO string"
\* (MoviesView lines 188-195, TVShowsView lines 197-204).
WatchDateIgnoringStrings(date) ==
  IF date.kind = "number" THEN date.secs ELSE Today
WatchDate(date) ==
  IF date.kind = "number" THEN date.secs
  ELSE IF date.kind = "string" THEN DateParse(date.ymd)
  ELSE Today

\* ---- arrays ------------------------------------------------------------
\* A JavaScript number: NaN, or the integer n.
NaN == [nan |-> TRUE, n |-> 0]
Num(n) == [nan |-> FALSE, n |-> n]

\* Array.prototype.sort(cmp): a stable sort; x goes before y only when
\* cmp(x, y) is a number below zero (NaN counts as zero).
ArraySort(arr, GoesBefore(_, _)) ==
  LET RECURSIVE Insert(_, _)
      Insert(sorted, x) ==
        IF sorted = <<>> THEN <<x>>
        ELSE LET n == Len(sorted)
             IN IF GoesBefore(x, sorted[n])
                THEN Append(Insert(SubSeq(sorted, 1, n - 1), x), sorted[n])
                ELSE Append(sorted, x)
      RECURSIVE Sorted(_)
      Sorted(n) == IF n = 0 THEN <<>> ELSE Insert(Sorted(n - 1), arr[n])
  IN Sorted(Len(arr))

\* Array.prototype.filter
Filter(arr, Keep(_)) == SelectSeq(arr, Keep)

\* Array.prototype.slice(0, n)
Slice(arr, n) == SubSeq(arr, 1, IF Len(arr) < n THEN Len(arr) ELSE n)

\* Array.prototype.map
Map(arr, F(_)) == [i \in DOMAIN arr |-> F(arr[i])]

Range(arr) == {arr[i] : i \in DOMAIN arr}

\* [...new Set(values)].sort((a, b) => b - a)
RECURSIVE SortedDescending(_)
SortedDescending(S) ==
  IF S = {} THEN <<>>
  ELSE LET mx == CHOOSE x \in S : \A y \in S : y <= x
       IN <<mx>> \o SortedDescending(S \ {mx})

\* ---- MoviesView --------------------------------------------------------

\* b.date - a.date on the raw `date` fields: a number for two numbers, NaN
\* as soon as one of them is an ISO string.
DateDifference(b, a) ==
  IF a.date.kind = "number" /\ b.date.kind = "number"
  THEN Num(b.date.secs - a.date.secs) ELSE NaN

\* (a, b) => b.date - a.date
ByDateDescending(a, b) ==
  LET c == DateDifference(b, a) IN ~c.nan /\ c.n < 0

\* The mapping of lines 186-222: each record gets watchDate and year.
ProcessMovie(movie) ==
  [id |-> movie.id, rating_key |-> movie.rating_key, date |-> movie.date,
   watchDate |-> WatchDate(movie.date),
   year |-> GetFullYear(WatchDate(movie.date))]

\* processedMovies after line 225.
ProcessedMovies(movieData) == ArraySort(Map(movieData, ProcessMovie), ByDateDescending)

\* Lines 232-242: drop a record whose rating_key equals the one right before.
DeduplicatedMoviesKeepingAll(processedMovies) == processedMovies
DeduplicatedMovies(processedMovies) ==
  LET Kept(i) == i = 1 \/ processedMovies[i].rating_key # processedMovies[i - 1].rating_key
      RECURSIVE Upto(_)
      Upto(n) == IF n = 0 THEN <<>>
                 ELSE IF Kept(n) THEN Append(Upto(n - 1), processedMovies[n])
                 ELSE Upto(n - 1)
  IN Upto(Len(processedMovies))

\* Line 245 (and 312 of TVShowsView, 818 of ComicBooksView).
UniqueYears(list) == SortedDescending({list[i].year : i \in DOMAIN list})

\* getMoviesByYear / getShowsByYear / getComicsByYear: list.filter(m => m.year === year)
ByYear(list, year) == Filter(list, LAMBDA m : m.year = year)

\* MovieList: [...movies].sort((a, b) => b.date - a.date)
MovieList(list) == ArraySort(list, ByDateDescending)

\* getTop3ForYear of MoviesView, lines 309-318: the lowest watch year per
\* rating_key over allWatchData.
FirstWatchDates(watchData) ==
  LET RECURSIVE Upto(_)
      Upto(n) ==
        IF n = 0 THEN [k \in {} |-> 0]
        ELSE LET m == Upto(n - 1)
                 movie == watchData[n]
                 watchYear == GetFullYear(movie.watchDate)
             IN IF movie.rating_key = "" THEN m
                ELSE IF movie.rating_key \notin DOMAIN m \/ m[movie.rating_key] = 0
                        \/ watchYear < m[movie.rating_key]
                THEN [k \in DOMAIN m \cup {movie.rating_key} |->
                        IF k = movie.rating_key THEN watchYear ELSE m[k]]
                ELSE m
  IN Upto(Len(watchData))

\* The filter of lines 321-325.
WatchedIn(watchData, r, targetYear) ==
  \E i \in DOMAIN watchData :
    watchData[i].rating_key = r.rating_key /\ watchData[i].year = targetYear
FirstWatchedIn(watchData, r, targetYear) ==
  LET firstWatchDates == FirstWatchDates(watchData)
  IN r.rating_key \in DOMAIN firstWatchDates /\ firstWatchDates[r.rating_key] = targetYear

\* getTop3ForYear of MoviesView, lines 304-330.
MovieTop3SliceFirst(rankingList, watchData, targetYear) ==
  Filter(Slice(rankingList, 3), LAMBDA r : FirstWatchedIn(watchData, r, targetYear))
MovieTop3(rankingList, watchData, targetYear) ==
  Slice(Filter(rankingList, LAMBDA r : FirstWatchedIn(watchData, r, targetYear)), 3)

\* ---- TVShowsView -------------------------------------------------------

\* A year that is absent (undefined or null).
NoYear == 0

\* show.title.toLowerCase().trim() of the titles in the library.
NormalizedTitle(title) ==
  CASE title = "Lost" -> "lost"
    [] title = " LOST" -> "lost"
    [] title = "Fargo" -> "fargo"
    [] OTHER -> title

\* Lines 185-228: episodes grouped by show key, in the order the keys are
\* first met.
ShowMap(showData) ==
  LET RECURSIVE Upto(_)
      Upto(n) ==
        IF n = 0 THEN <<>>
        ELSE LET m == Upto(n - 1)
                 episode == showData[n]
                 showKey == episode.grandparent_rating_key
                 watchDate == WatchDate(episode.date)
                 at == {i \in DOMAIN m : m[i].rating_key = showKey}
             IN IF episode.media_type # "episode" THEN m
                ELSE IF at = {}
                THEN Append(m, [rating_key |-> showKey, title |-> episode.grandparent_title,
                                episodes |-> <<episode>>, firstWatched |-> watchDate,
                                lastWatched |-> watchDate])
                ELSE LET i == CHOOSE i \in at : TRUE
                         show == m[i]
                     IN [m EXCEPT ![i] =
                           [show EXCEPT
                              !.episodes = Append(show.episodes, episode),
                              !.firstWatched = IF watchDate < show.firstWatched
                                               THEN watchDate ELSE show.firstWatched,
                              !.lastWatched = IF watchDate > show.lastWatched
                                              THEN watchDate ELSE show.lastWatched]]
  IN Upto(Len(showData))

\* Lines 231-258.
ProcessShowCountingOnce(show) ==
  [rating_key |-> show.rating_key, title |-> show.title, episodes |-> show.episodes,
   firstWatched |-> show.firstWatched, lastWatched |-> show.lastWatched,
   watchDate |-> show.lastWatched,
   year |-> GetFullYear(show.lastWatched),
   releaseYear |-> show.episodes[1].year,
   episodeCount |-> 1]
ProcessShow(show) ==
  [rating_key |-> show.rating_key, title |-> show.title, episodes |-> show.episodes,
   firstWatched |-> show.firstWatched, lastWatched |-> show.lastWatched,
   watchDate |-> show.lastWatched,
   year |-> GetFullYear(show.lastWatched),
   releaseYear |-> show.episodes[1].year,
   episodeCount |-> Len(show.episodes)]

ProcessedShows(showData) == Map(ShowMap(showData), ProcessShow)

\* (a, b) => b.watchDate - a.watchDate
ByWatchDateDescending(a, b) == b.watchDate - a.watchDate < 0

\* Lines 262-286: one show per normalized title, the one with more episodes
\* (or, with as many, the later watchDate) taking the place of the other.
TitleDeduplicated(processedShows) ==
  LET RECURSIVE Upto(_)
      Upto(n) ==
        IF n = 0 THEN <<>>
        ELSE LET kept == Upto(n - 1)
                 show == processedShows[n]
                 at == {i \in DOMAIN kept :
                          NormalizedTitle(kept[i].title) = NormalizedTitle(show.title)}
             IN IF at = {} THEN Append(kept, show)
                ELSE LET i == CHOOSE i \in at : TRUE
                         existing == kept[i]
                     IN IF \/ show.episodeCount > existing.episodeCount
                           \/ /\ show.episodeCount = existing.episodeCount
                              /\ show.watchDate > existing.watchDate
                        THEN [kept EXCEPT ![i] = show]
                        ELSE kept
  IN Upto(Len(processedShows))

\* deduplicatedShows after line 289.
DeduplicatedShows(processedShows) ==
  ArraySort(TitleDeduplicated(processedShows), ByWatchDateDescending)

\* Lines 293-309.
AllEpisodeWatches(showData) ==
  Map(Filter(showData, LAMBDA e : e.media_type = "episode"),
      LAMBDA e : [id |-> e.id, grandparent_rating_key |-> e.grandparent_rating_key,
                  date |-> e.date, watchDate |-> WatchDate(e.date),
                  year |-> GetFullYear(WatchDate(e.date))])

\* getTop3ForYear of TVShowsView, lines 377-382: the release year per
\* rating_key over the shows of the display list.
ReleaseYearsByRatingKey(showList) ==
  LET keys == {showList[i].rating_key : i \in {j \in DOMAIN showList :
                 showList[j].rating_key # "" /\ showList[j].releaseYear # NoYear}}
  IN [k \in keys |->
        LET i == CHOOSE i \in DOMAIN showList :
                   /\ showList[i].rating_key = k /\ showList[i].releaseYear # NoYear
                   /\ \A j \in DOMAIN showList :
                        (showList[j].rating_key = k /\ showList[j].releaseYear # NoYear)
                        => j <= i
        IN showList[i].releaseYear]

\* The filter of lines 386-389.
ShowWatchedIn(showList, r, targetYear) ==
  \E i \in DOMAIN showList :
    showList[i].rating_key = r.rating_key /\ showList[i].year = targetYear
ReleasedIn(showList, r, targetYear) ==
  LET releaseYears == ReleaseYearsByRatingKey(showList)
  IN r.rating_key \in DOMAIN releaseYears /\ releaseYears[r.rating_key] = targetYear

\* getTop3ForYear of TVShowsView, lines 372-394.
ShowTop3(rankingList, showList, targetYear) ==
  Map(Slice(Filter(rankingList, LAMBDA r : ReleasedIn(showList, r, targetYear)), 3),
      LAMBDA r : r.title)

\* ---- ComicBooksView ----------------------------------------------------

\* The views of comics: ComicBooksView as in MoviesView.jsx from line 530 on,
\* and ComicBooksView as in ComicBooksView.jsx.
ComicViews == {"comics", "comics-by-read-year"}

\* comic.bookTitle.match(/\((\d{4})\)/) of the book titles in the library.
BookTitles == {"Saga 001", "Saga 001 (2023)", "Saga 001 (2024)"}
YearInTitle(bookTitle) ==
  CASE bookTitle = "Saga 001 (2023)" -> 2023
    [] bookTitle = "Saga 001 (2024)" -> 2024
    [] OTHER -> NoYear

\* No usable read date.
NoReadDate == 0 - 1

\* Lines 708-729 (file MoviesView.jsx), for records that carry `date` or
\* `watchDate`: the read date, or null.
ReadDate(comic) ==
  IF comic.date.kind = "number" THEN comic.date.secs
  ELSE IF comic.watchDate.kind = "string" THEN DateParse(comic.watchDate.ymd)
  ELSE NoReadDate

\* Lines 705-784: records without a read date are dropped, the others get
\* watchDate, a numeric date and the year, and are sorted by date.
\* issueReleaseYear and readYear are lines 738-747 and 254.
ProcessComic(comic) ==
  [id |-> comic.id, rating_key |-> comic.seriesId, seriesId |-> comic.seriesId,
   date |-> [kind |-> "number", secs |-> ReadDate(comic), ymd |-> <<0, 0, 0>>],
   watchDate |-> ReadDate(comic),
   year |-> GetFullYear(ReadDate(comic)),
   readYear |-> GetFullYear(ReadDate(comic)),
   issueReleaseYear |-> YearInTitle(comic.bookTitle),
   releaseYear |-> IF YearInTitle(comic.bookTitle) # NoYear
                   THEN YearInTitle(comic.bookTitle) ELSE comic.year]

ProcessedComics(comicData) ==
  ArraySort(Map(Filter(comicData, LAMBDA c : ReadDate(c) # NoReadDate), ProcessComic),
            ByDateDescending)

\* ComicBooksView.jsx lines 186-199: the read date of a record without
\* lastRead is its `date`, or else the time of loading.
ReadDateOrToday(comic) ==
  IF comic.date.kind = "number" THEN comic.date.secs
  ELSE IF comic.date.kind = "string" THEN DateParse(comic.date.ymd)
  ELSE Today

\* ComicBooksView.jsx lines 184-235: every record is kept.
ProcessComicByReadYear(comic) ==
  [id |-> comic.id, rating_key |-> comic.seriesId, seriesId |-> comic.seriesId,
   date |-> [kind |-> "number", secs |-> ReadDateOrToday(comic), ymd |-> <<0, 0, 0>>],
   watchDate |-> ReadDateOrToday(comic),
   year |-> GetFullYear(ReadDateOrToday(comic)),
   releaseYear |-> comic.year]

ProcessedComicsByReadYear(comicData) ==
  ArraySort(Map(comicData, ProcessComicByReadYear), ByDateDescending)

\* Lines 790-809: one record per seriesId, the most recently read one.
ComicsBySeriesIdKeepingAll(processedComics) == processedComics
ComicsBySeriesId(processedComics) ==
  LET RECURSIVE Upto(_)
      Upto(n) ==
        IF n = 0 THEN <<>>
        ELSE LET m == Upto(n - 1)
                 comic == processedComics[n]
                 at == {i \in DOMAIN m : m[i].seriesId = comic.seriesId}
             IN IF comic.seriesId = "" THEN m
                ELSE IF at = {} THEN Append(m, comic)
                ELSE LET i == CHOOSE i \in at : TRUE
                     IN IF comic.watchDate > m[i].watchDate
                        THEN [m EXCEPT ![i] = comic] ELSE m
  IN Upto(Len(processedComics))

\* deduplicatedComics after line 815.
DeduplicatedComics(processedComics) ==
  ArraySort(ComicsBySeriesId(processedComics), ByWatchDateDescending)

\* getTop3ForYear of ComicBooksView, MoviesView.jsx lines 878-922: the
\* series with an issue read in the year and released in the year.
EligibleSeries(readData, targetYear) ==
  {readData[i].seriesId :
     i \in {j \in DOMAIN readData :
              /\ readData[j].seriesId # ""
              /\ readData[j].readYear = targetYear
              /\ readData[j].issueReleaseYear # NoYear
              /\ readData[j].issueReleaseYear = targetYear}}

ComicTop3(rankingList, readData, targetYear) ==
  Slice(Filter(rankingList,
               LAMBDA r : r.rating_key # ""
                          /\ r.rating_key \in EligibleSeries(readData, targetYear)), 3)

\* getTop3ForYear of ComicBooksView.jsx, lines 324-378: the series whose
\* most recent read lies in the year.
ReadYearsByRatingKey(readData, comicList) ==
  LET all == readData \o comicList
      keys == {all[i].seriesId : i \in {j \in DOMAIN all : all[j].seriesId # ""}}
  IN [k \in keys |->
        LET readYears == {GetFullYear(all[i].watchDate) :
                            i \in {j \in DOMAIN all : all[j].seriesId = k}}
        IN CHOOSE y \in readYears : \A z \in readYears : z <= y]

ComicTop3ByReadYear(rankingList, readData, comicList, targetYear) ==
  LET readYearsByRatingKey == ReadYearsByRatingKey(readData, comicList)
  IN Slice(Filter(rankingList,
                  LAMBDA r : /\ r.rating_key # ""
                             /\ r.rating_key \in DOMAIN readYearsByRatingKey
                             /\ readYearsByRatingKey[r.rating_key] = targetYear), 3)

\* ---- the pages ---------------------------------------------------------

\* What a view keeps under its cache key (lines 251-255; TVShowsView lines
\* 318-322; ComicBooksView lines 824-828).
CacheEntry(processed, watchData, uniqueYears) ==
  [processed |-> processed, allWatchData |-> watchData, years |-> uniqueYears]

\* The lists of a view that has not fetched, with what is unchanged by a
\* fetch.
ListsEmptied ==
  /\ movies' = <<>> /\ shows' = <<>> /\ comics' = <<>>
  /\ allWatchData' = <<>> /\ years' = <<>> /\ rankings' = <<>>

\* The records of the snapshot files.
MovieKeys == {"A", "B"}
ShowKeys == {"S1", "S2", "S3"}
SeriesIds == {"s1", "s2"}
TitleOf(key) ==
  CASE key = "S1" -> "Lost"
    [] key = "S2" -> " LOST"
    [] key = "S3" -> "Fargo"
    [] OTHER -> key
ReleaseYearOf(key) ==
  CASE key = "S1" -> 2023
    [] key = "S2" -> 2024
    [] OTHER -> NoYear

MovieRecord(i, key, date) == [id |-> i, rating_key |-> key, date |-> date]
EpisodeRecord(i, key, date, year) ==
  [id |-> i, media_type |-> "episode", grandparent_rating_key |-> key,
   grandparent_title |-> TitleOf(key), date |-> date, year |-> year]
IssueRecord(i, seriesId, date, watchDate, bookTitle, year) ==
  [id |-> i, seriesId |-> seriesId, date |-> date, watchDate |-> watchDate,
   bookTitle |-> bookTitle, year |-> year]
ComicRecord(i, seriesId, watchDate) ==
  IssueRecord(i, seriesId, NoDate, watchDate, "Saga 001",
              IF watchDate.kind = "string" THEN TrueYear(watchDate) ELSE NoYear)

\* An entry of a ranking file.
RankingEntry(key) == [rating_key |-> key, title |-> TitleOf(key)]

\* The view shows nothing yet and nothing was changed.
Mounted ==
  /\ loading = TRUE
  /\ movies = <<>> /\ shows = <<>> /\ comics = <<>>
  /\ allWatchData = <<>> /\ years = <<>> /\ rankings = <<>>
  /\ viewCache = <<>> /\ moved = 0 /\ prior = <<>>

CacheUntouched ==
  /\ memoryCache = EmptyMap /\ db = "null" /\ idb = EmptyMap /\ now = StartTime
  /\ calls = <<>> /\ last = NoCall /\ sinceClear = FALSE /\ justSet = {}
  /\ ticks = 0

\* movies.json with up to MaxEvents records, all dates numbers or all dates
\* ISO strings.
InitMovies ==
  /\ view = "movies"
  /\ \E n \in 0..MaxEvents, kind \in {"number", "string"} :
       \E keys \in [1..n -> MovieKeys], dates \in [1..n -> DatesOf(kind)] :
          snapshot = [i \in 1..n |-> MovieRecord(i, keys[i], dates[i])]
  /\ rankingFile = <<RankingEntry("A"), RankingEntry("B")>>

\* tv-shows.json with up to MaxEvents episode records.
InitTVShows ==
  /\ view = "tv"
  /\ \E n \in 0..MaxEvents :
       \E keys \in [1..n -> ShowKeys], dates \in [1..n -> {NumberDate(d) : d \in YearDays}] :
          snapshot = [i \in 1..n |->
                        EpisodeRecord(i, keys[i], dates[i], ReleaseYearOf(keys[i]))]
  /\ rankingFile = <<RankingEntry("S2"), RankingEntry("S1")>>

\* comic-books.json with up to MaxEvents read records, as
\* scripts/fetch-comic-books-data.js writes them: watchDate an ISO string or
\* null, no numeric date.
InitComicBooks ==
  /\ view = "comics"
  /\ \E n \in 0..MaxEvents :
       \E ids \in [1..n -> SeriesIds],
          dates \in [1..n -> {StringDate(d) : d \in YearDays} \cup {NoDate}] :
          snapshot = [i \in 1..n |-> ComicRecord(i, ids[i], dates[i])]
  /\ rankingFile = <<RankingEntry("s1")>>

InitViews ==
  /\ NoEditor
  /\ NoServer
  /\ NoScripts
  /\ CacheUntouched
  /\ Mounted
  /\ (InitMovies \/ InitTVShows \/ InitComicBooks)

\* fetchMovies (MoviesView lines 119-291), run when the view is mounted.
FetchMovies ==
  /\ view = "movies" /\ loading
  /\ IF viewCache # <<>>
     THEN /\ movies' = viewCache[1].processed
          /\ allWatchData' = viewCache[1].allWatchData
          /\ years' = viewCache[1].years
          /\ UNCHANGED viewCache
     ELSE IF Len(snapshot) > 0
     THEN LET processedMovies == ProcessedMovies(snapshot)
              deduplicatedMovies == DeduplicatedMovies(processedMovies)
              uniqueYears == UniqueYears(deduplicatedMovies)
          IN /\ viewCache' = <<CacheEntry(deduplicatedMovies, processedMovies, uniqueYears)>>
             /\ allWatchData' = processedMovies
             /\ movies' = deduplicatedMovies
             /\ years' = uniqueYears
     ELSE UNCHANGED <<movies, allWatchData, years, viewCache>>
  /\ loading' = FALSE
  /\ UNCHANGED <<view, snapshot, shows, comics, rankings, rankingFile, moved, prior>>
  /\ UNCHANGED <<cacheVars, editorVars, serverVars, scriptVars>>

\* fetchTVShows (TVShowsView lines 119-359).
FetchTVShows ==
  /\ view = "tv" /\ loading
  /\ IF viewCache # <<>>
     THEN /\ shows' = viewCache[1].processed
          /\ allWatchData' = viewCache[1].allWatchData
          /\ years' = viewCache[1].years
          /\ UNCHANGED viewCache
     ELSE IF Len(snapshot) > 0
     THEN LET processedShows == ProcessedShows(snapshot)
              deduplicatedShows == DeduplicatedShows(processedShows)
              allEpisodeWatches == AllEpisodeWatches(snapshot)
              uniqueYears == UniqueYears(deduplicatedShows)
          IN /\ viewCache' = <<CacheEntry(processedShows, allEpisodeWatches, uniqueYears)>>
             /\ allWatchData' = allEpisodeWatches
             /\ shows' = deduplicatedShows
             /\ years' = uniqueYears
     ELSE UNCHANGED <<shows, allWatchData, years, viewCache>>
  /\ loading' = FALSE
  /\ UNCHANGED <<view, snapshot, movies, comics, rankings, rankingFile, moved, prior>>
  /\ UNCHANGED <<cacheVars, editorVars, serverVars, scriptVars>>

\* fetchComicBooks (ComicBooksView, MoviesView.jsx lines 639-860).
FetchComicBooks ==
  /\ view \in ComicViews /\ loading
  /\ IF viewCache # <<>>
     THEN /\ comics' = viewCache[1].processed
          /\ allWatchData' = viewCache[1].allWatchData
          /\ years' = viewCache[1].years
          /\ UNCHANGED viewCache
     ELSE IF Len(snapshot) > 0
     THEN LET processedComics == IF view = "comics" THEN ProcessedComics(snapshot)
                                  ELSE ProcessedComicsByReadYear(snapshot)
              deduplicatedComics == DeduplicatedComics(processedComics)
              uniqueYears == UniqueYears(deduplicatedComics)
          IN /\ viewCache' = <<CacheEntry(deduplicatedComics, processedComics, uniqueYears)>>
             /\ allWatchData' = processedComics
             /\ comics' = deduplicatedComics
             /\ years' = uniqueYears
     ELSE UNCHANGED <<comics, allWatchData, years, viewCache>>
  /\ loading' = FALSE
  /\ UNCHANGED <<view, snapshot, movies, shows, rankings, rankingFile, moved, prior>>
  /\ UNCHANGED <<cacheVars, editorVars, serverVars, scriptVars>>

\* loadRankings (MoviesView lines 61-92, TVShowsView lines 61-92), run when
\* the view is mounted: the ranking file becomes the state `rankings`.
LoadRankings ==
  /\ view # "none"
  /\ rankings = <<>> /\ rankingFile # <<>>
  /\ rankings' = rankingFile
  /\ UNCHANGED <<view, snapshot, loading, movies, shows, comics, allWatchData, years,
                 rankingFile, viewCache, moved, prior>>
  /\ UNCHANGED <<cacheVars, editorVars, serverVars, scriptVars>>

\* The page is loaded again: the component state starts over; what the view
\* cached is still there (kept) or is expired or lost (not kept).
Reload(kept) ==
  /\ view # "none" /\ ~loading
  /\ loading' = TRUE
  /\ ListsEmptied
  /\ viewCache' = IF kept THEN viewCache ELSE <<>>
  /\ UNCHANGED <<view, snapshot, rankingFile, moved, prior>>
  /\ UNCHANGED <<cacheVars, editorVars, serverVars, scriptVars>>

\* The list the view displays, and the date field the snapshot's records carry.
Displayed ==
  CASE view = "movies" -> movies
    [] view = "tv" -> shows
    [] OTHER -> comics
EventDate(e) == IF view \in ComicViews THEN e.watchDate ELSE e.date
WithEventDate(e, d) ==
  IF view \in ComicViews THEN [e EXCEPT !.watchDate = d] ELSE [e EXCEPT !.date = d]

\* The fetch script writes a new snapshot in which the timestamp of record i
\* lies in another year, the old cache entry has expired and the page is
\* loaded again.
SnapshotChanges(i, ymd) ==
  /\ view # "none" /\ ~loading /\ moved = 0
  /\ i \in DOMAIN snapshot
  /\ EventDate(snapshot[i]).kind \in {"number", "string"}
  /\ LET d == IF EventDate(snapshot[i]).kind = "number" THEN NumberDate(ymd)
              ELSE StringDate(ymd)
     IN /\ TrueYear(d) # TrueYear(EventDate(snapshot[i]))
        /\ snapshot' = [snapshot EXCEPT ![i] = WithEventDate(snapshot[i], d)]
  /\ moved' = snapshot[i].id
  /\ prior' = <<[display |-> Displayed, stats |-> allWatchData,
                 from |-> TrueYear(EventDate(snapshot[i]))]>>
  /\ loading' = TRUE
  /\ ListsEmptied
  /\ viewCache' = <<>>
  /\ UNCHANGED <<view, rankingFile>>
  /\ UNCHANGED <<cacheVars, editorVars, serverVars, scriptVars>>

NextViews ==
  \/ FetchMovies
  \/ FetchTVShows
  \/ FetchComicBooks
  \/ LoadRankings
  \/ \E kept \in BOOLEAN : Reload(kept)
  \/ \E i \in 1..MaxEvents, ymd \in Days : SnapshotChanges(i, ymd)

SpecViews == InitViews /\ [][NextViews]_vars

\* ---- the ranked library ------------------------------------------------
\* Snapshots in which each title of the library was watched in a set of
\* years, with every ranking list of up to MaxRank of these titles.

RankedMovies == <<"A", "B", "C", "D">>
RankedShows == <<"S1", "S2", "S3">>
RankedMovieKeys == Range(RankedMovies)
RankedShowKeys == Range(RankedShows)
UnwatchedShowKey == "S4"

\* One day of each year.
DayIn(year) == CHOOSE d \in YearDays : d[1] = year

RECURSIVE SetToSeq(_)
SetToSeq(S) ==
  IF S = {} THEN <<>>
  ELSE LET x == CHOOSE x \in S : \A y \in S : x[1] < y[1] \/ (x[1] = y[1] /\ x[2] <= y[2])
       IN <<x>> \o SetToSeq(S \ {x})

\* The ranking lists: no title twice.
RankingFiles(keys) ==
  {[i \in DOMAIN s |-> RankingEntry(s[i])] :
     s \in {t \in UNION {[1..n -> keys] : n \in 0..MaxRank} :
              \A i, j \in DOMAIN t : i # j => t[i] # t[j]}}

InitRankedMovies ==
  /\ view = "movies"
  /\ \E watched \in [RankedMovieKeys -> SUBSET Years] :
       LET pairs == SetToSeq({<<y, n>> \in Years \X DOMAIN RankedMovies :
                                y \in watched[RankedMovies[n]]})
       IN snapshot = [i \in DOMAIN pairs |->
                        MovieRecord(i, RankedMovies[pairs[i][2]],
                                    NumberDate(DayIn(pairs[i][1])))]
  /\ rankingFile \in RankingFiles(RankedMovieKeys)

InitRankedShows ==
  /\ view = "tv"
  /\ \E watched \in [RankedShowKeys -> {NoYear} \cup Years],
        released \in [RankedShowKeys -> {NoYear} \cup Years] :
       /\ \A k \in RankedShowKeys : watched[k] = NoYear => released[k] = NoYear
       /\ LET pairs == SetToSeq({<<y, n>> \in Years \X DOMAIN RankedShows :
                                   y = watched[RankedShows[n]]})
          IN snapshot = [i \in DOMAIN pairs |->
                           EpisodeRecord(i, RankedShows[pairs[i][2]],
                                         NumberDate(DayIn(pairs[i][1])),
                                         released[RankedShows[pairs[i][2]]])]
  /\ rankingFile \in RankingFiles(RankedShowKeys \cup {UnwatchedShowKey})

\* The issues of a series: each read in a year, with or without a release
\* year in its title. Series s1 has up to two issues and may carry a
\* series-level year, series s2 has at most one issue released when read;
\* the records carry a numeric date (dated) or only the ISO watchDate that
\* scripts/fetch-comic-books-data.js writes.
Issues == Years \X BookTitles
RankedSeries == <<"s1", "s2">>

InitRankedComics ==
  /\ view \in ComicViews
  /\ \E first \in {I \in SUBSET Issues : Cardinality(I) <= 2},
        second \in {I \in SUBSET {<<2024, "Saga 001 (2024)">>} : TRUE},
        seriesYear \in {NoYear, 2024}, dated \in BOOLEAN :
       LET issuesOf == <<first, second>>
           all == {<<y, n, t>> \in Years \X (DOMAIN RankedSeries) \X BookTitles :
                     <<y, t>> \in issuesOf[n]}
           RECURSIVE InOrder(_)
           InOrder(S) ==
             IF S = {} THEN <<>>
             ELSE LET x == CHOOSE x \in S :
                             \A z \in S : \/ x[1] < z[1]
                                           \/ (x[1] = z[1] /\ x[2] < z[2])
                                           \/ (x[1] = z[1] /\ x[2] = z[2]
                                               /\ YearInTitle(x[3]) <= YearInTitle(z[3]))
                  IN <<x>> \o InOrder(S \ {x})
           issues == InOrder(all)
       IN snapshot = [i \in DOMAIN issues |->
                        IssueRecord(i, RankedSeries[issues[i][2]],
                                    IF dated THEN NumberDate(DayIn(issues[i][1])) ELSE NoDate,
                                    StringDate(DayIn(issues[i][1])),
                                    issues[i][3],
                                    IF issues[i][2] = 1 THEN seriesYear ELSE NoYear)]
  /\ rankingFile \in RankingFiles(Range(RankedSeries))

InitRanked ==
  /\ NoEditor
  /\ NoServer
  /\ NoScripts
  /\ CacheUntouched
  /\ Mounted
  /\ (InitRankedMovies \/ InitRankedShows \/ InitRankedComics)

NextRanked ==
  \/ FetchMovies
  \/ FetchTVShows
  \/ FetchComicBooks
  \/ LoadRankings

SpecRanked == InitRanked /\ [][NextRanked]_vars

\* getTop3ForYear of the mounted view, for the tab of a year.
GetTop3ForYear(targetYear) ==
  CASE view = "tv" -> ShowTop3(rankings, shows, targetYear)
    [] view = "comics" -> ComicTop3(rankings, allWatchData, targetYear)
    [] view = "comics-by-read-year" ->
         ComicTop3ByReadYear(rankings, allWatchData, comics, targetYear)
    [] OTHER -> MovieTop3(rankings, allWatchData, targetYear)

(***************************************************************************)
(*                  Part II: properties of the aggregation                 *)
(***************************************************************************)

Min(a, b) == IF a < b THEN a ELSE b

Keys(list) == [i \in DOMAIN list |-> list[i].rating_key]

\* The years in which the snapshot has a watch event of the movie.
WatchYears(key) ==
  {TrueYear(snapshot[i].date) : i \in {j \in DOMAIN snapshot : snapshot[j].rating_key = key}}

\* The ranking entry r may appear in the top-3 of the year: a movie by its
\* earliest watch year, a show by the release year of its display entry.
Eligible(r, year) ==
  IF view = "tv"
  THEN \E i \in DOMAIN shows :
         shows[i].rating_key = r.rating_key /\ shows[i].releaseYear = year
  ELSE /\ year \in WatchYears(r.rating_key)
       /\ \A y \in WatchYears(r.rating_key) : year <= y

\* What getTop3ForYear hands on for a ranking entry.
Shown(r) == IF view = "tv" THEN r.title ELSE r

RankingsLoaded == ~loading /\ rankings = rankingFile

\* C4: the top-3 of a year is the ranking list restricted to the entries
\* eligible for the year, cut after three: its n-th entry is the n-th
\* eligible entry of the ranking list, so it is a subsequence of the ranking
\* in ranking order, at most 3 long, and never sorted on its own.
Top3IsRankingRestricted ==
  (RankingsLoaded /\ view \in {"movies", "tv"}) =>
    \A year \in Years :
      LET top3 == GetTop3ForYear(year)
          eligible == {i \in DOMAIN rankings : Eligible(rankings[i], year)}
          Nth(n) == CHOOSE i \in eligible : Cardinality({j \in eligible : j <= i}) = n
      IN /\ Len(top3) = Min(3, Cardinality(eligible))
         /\ \A n \in DOMAIN top3 : top3[n] = Shown(rankings[Nth(n)])

\* C4 witness: a ranking [X, Y, Z] of which only Y and Z are eligible for a
\* year, whose top-3 is [Y, Z].
Top3IsRankingRestrictedWitness ==
  /\ RankingsLoaded /\ view \in {"movies", "tv"} /\ Len(rankings) = 3
  /\ \E year \in Years :
       /\ {i \in DOMAIN rankings : Eligible(rankings[i], year)} = {2, 3}
       /\ GetTop3ForYear(year) = <<Shown(rankings[2]), Shown(rankings[3])>>

\* A ranking with four eligible entries, cut after the third.
Top3CutAfterThree ==
  /\ RankingsLoaded /\ view = "movies"
  /\ \E year \in Years :
       /\ Cardinality({i \in DOMAIN rankings : Eligible(rankings[i], year)}) = 4
       /\ Len(GetTop3ForYear(year)) = 3

MoviesLoaded == view = "movies" /\ ~loading

\* C5: the movie display list has no two adjacent entries with the same
\* rating_key, and collapsing consecutive duplicates in it again changes
\* nothing.
NoAdjacentDuplicates ==
  MoviesLoaded =>
    /\ \A i \in 1..(Len(movies) - 1) : movies[i].rating_key # movies[i + 1].rating_key
    /\ DeduplicatedMovies(movies) = movies

\* C5 witness: consecutive watches of one movie were collapsed and two
\* entries are left.
NoAdjacentDuplicatesWitness ==
  /\ MoviesLoaded /\ Len(movies) >= 2 /\ Len(allWatchData) > Len(movies)
  /\ \E i \in 1..(Len(allWatchData) - 1) :
       allWatchData[i].rating_key = allWatchData[i + 1].rating_key

\* The events A (2024-01-01), A (2024-01-01), B (2024-06-01), as numbers or
\* as ISO strings.
ScenarioABA ==
  /\ Len(snapshot) = 3
  /\ Keys(snapshot) = <<"A", "A", "B">>
  /\ [i \in 1..3 |-> WatchDate(snapshot[i].date)] =
       <<DateParse(<<2024, 1, 1>>), DateParse(<<2024, 1, 1>>), DateParse(<<2024, 6, 1>>)>>

\* C6 as stated: the complete list is in descending order of the watch
\* instant whatever the type of `date`, and for the events A, A, B above the
\* list rendered for 2024 is [B, A] while the complete list holds both A
\* events.
MoviesSortedByWatchInstant ==
  (MoviesLoaded /\ moved = 0) =>
    /\ \A i \in 1..(Len(allWatchData) - 1) :
         allWatchData[i].watchDate >= allWatchData[i + 1].watchDate
    /\ ScenarioABA =>
         /\ Keys(MovieList(ByYear(movies, 2024))) = <<"B", "A">>
         /\ Cardinality({i \in DOMAIN allWatchData : allWatchData[i].rating_key = "A"}) = 2

\* The entries of a year's display list.
YearList(year) == ByYear(Displayed, year)

\* C7 as stated: no year's display list holds two entries with the same
\* rating_key, in any view.
OneEntryPerIdentityPerYear ==
  ~loading =>
    \A year \in Years :
      \A i, j \in DOMAIN YearList(year) :
        i # j => YearList(year)[i].rating_key # YearList(year)[j].rating_key

\* The positions at which a run of equal rating_keys starts.
RunHeads(list) == {i \in DOMAIN list : i = 1 \/ list[i - 1].rating_key # list[i].rating_key}

\* C7 amended: a year's list of shows or of comics holds each rating_key at
\* most once; a year's list of movies holds a rating_key once for every run
\* of consecutive watches of that movie in the complete list that starts in
\* the year (so A watched, then B, then A again appears twice).
OneEntryPerIdentityOrRun ==
  ~loading =>
    \A year \in Years :
      IF view = "movies"
      THEN \A key \in MovieKeys :
             Cardinality({i \in DOMAIN movies :
                            movies[i].rating_key = key /\ movies[i].year = year})
               = Cardinality({i \in RunHeads(allWatchData) :
                                /\ allWatchData[i].rating_key = key
                                /\ allWatchData[i].year = year})
      ELSE \A i, j \in DOMAIN YearList(year) :
             i # j => YearList(year)[i].rating_key # YearList(year)[j].rating_key

\* C7 witness: movie A was watched, then B, then A again in 2024, and the
\* list of 2024 shows A twice.
OneEntryPerIdentityOrRunWitness ==
  /\ MoviesLoaded
  /\ Keys(ByYear(movies, 2024)) = <<"A", "B", "A">>

\* A second reachable case of C7: two issues of one series read in one year
\* give one entry.
OneSeriesEntryReached ==
  /\ view = "comics" /\ ~loading
  /\ Len(ByYear(allWatchData, 2024)) = 2 /\ Len(ByYear(comics, 2024)) = 1

RECURSIVE SumEpisodeCount(_)
SumEpisodeCount(list) ==
  IF list = <<>> THEN 0
  ELSE list[1].episodeCount + SumEpisodeCount(Tail(list))

EpisodeEvents == Cardinality({i \in DOMAIN snapshot : snapshot[i].media_type = "episode"})

\* Two show identities of the snapshot have the same normalized title.
TitlesCollide ==
  \E i, j \in DOMAIN snapshot :
    /\ snapshot[i].grandparent_rating_key # snapshot[j].grandparent_rating_key
    /\ NormalizedTitle(snapshot[i].grandparent_title)
         = NormalizedTitle(snapshot[j].grandparent_title)

ShowsLoaded == view = "tv" /\ ~loading /\ snapshot # <<>>

\* C8 as stated: the episodeCount of the displayed shows adds up to the
\* number of episode events.
EpisodeCountsAddUp ==
  ShowsLoaded => SumEpisodeCount(shows) = EpisodeEvents

\* C8 amended: the episodeCount of the shows grouped by identity (the list
\* kept in the cache) adds up to the number of episode events; the displayed
\* shows add up to at most that number, and to exactly that number when no
\* two identities share a normalized title.
EpisodeCountsAddUpByIdentity ==
  ShowsLoaded =>
    /\ SumEpisodeCount(viewCache[1].processed) = EpisodeEvents
    /\ SumEpisodeCount(shows) <= EpisodeEvents
    /\ ~TitlesCollide => SumEpisodeCount(shows) = EpisodeEvents

\* C8 witness: two identities with the same normalized title were merged and
\* the displayed counts add up to less than the three episode events.
EpisodeCountsAddUpByIdentityWitness ==
  /\ ShowsLoaded /\ TitlesCollide
  /\ EpisodeEvents = 3
  /\ SumEpisodeCount(shows) < EpisodeEvents
  /\ SumEpisodeCount(viewCache[1].processed) = EpisodeEvents

\* The years of the lists in which event id appears: in a list of events or
\* of display entries, and in a list of shows through the show's episodes.
BucketsOf(list, id) == {list[i].year : i \in {j \in DOMAIN list : list[j].id = id}}
ShowBucketsOf(list, id) ==
  {list[i].year : i \in {j \in DOMAIN list :
                           \E n \in DOMAIN list[j].episodes : list[j].episodes[n].id = id}}
DisplayBucketsOf(list, id) ==
  IF view = "tv" THEN ShowBucketsOf(list, id) ELSE BucketsOf(list, id)

\* The snapshot changed and the view has fetched it anew.
Refetched == moved # 0 /\ ~loading /\ viewCache # <<>>

\* The display list is the one a fetch of the snapshot file computes.
FreshDisplay ==
  Displayed = CASE view = "movies" -> DeduplicatedMovies(ProcessedMovies(snapshot))
                [] view = "tv" -> DeduplicatedShows(ProcessedShows(snapshot))
                [] OTHER -> DeduplicatedComics(ProcessedComics(snapshot))

RankedMoviesLoaded == view = "movies" /\ RankingsLoaded

\* C10 as stated: a movie among the first three of the ranking that has a
\* watch event in a year is in that year's top-3.
WatchedInYearIsEligible ==
  RankedMoviesLoaded =>
    \A year \in Years :
      \A i \in DOMAIN rankings :
        (i <= 3 /\ year \in WatchYears(rankings[i].rating_key))
          => rankings[i] \in Range(GetTop3ForYear(year))

\* C10 amended: a ranked movie is eligible for the top-3 of exactly one
\* year, the year of its earliest watch event: an entry of a year's top-3 was
\* first watched in that year, and a movie among the first three of the
\* ranking is in the top-3 of the year it was first watched in.
FirstWatchedInYearIsEligible ==
  RankedMoviesLoaded =>
    \A year \in Years :
      \A i \in DOMAIN rankings :
        LET watchYears == WatchYears(rankings[i].rating_key)
            first == watchYears # {} /\ year \in watchYears
                     /\ \A y \in watchYears : year <= y
        IN /\ rankings[i] \in Range(GetTop3ForYear(year)) => first
           /\ (i <= 3 /\ first) => rankings[i] \in Range(GetTop3ForYear(year))

\* C10 witness: the movie ranked first was watched in 2023 and in 2024; it
\* is in the top-3 of 2023 and not in the top-3 of 2024.
FirstWatchedInYearIsEligibleWitness ==
  /\ RankedMoviesLoaded /\ rankings # <<>>
  /\ WatchYears(rankings[1].rating_key) = {2023, 2024}
  /\ rankings[1] \in Range(GetTop3ForYear(2023))
  /\ rankings[1] \notin Range(GetTop3ForYear(2024))

RankedShowsLoaded == view = "tv" /\ RankingsLoaded

\* The years in which the snapshot has a watched episode of the show, and
\* the `year` field of the show's first episode record.
EpisodeWatchYears(key) ==
  {TrueYear(snapshot[i].date) :
     i \in {j \in DOMAIN snapshot : snapshot[j].grandparent_rating_key = key}}
FirstEpisodeYear(key) ==
  LET of == {j \in DOMAIN snapshot : snapshot[j].grandparent_rating_key = key}
  IN IF of = {} THEN NoYear
     ELSE snapshot[CHOOSE j \in of : \A n \in of : j <= n].year

IsDisplayed(key) == \E i \in DOMAIN shows : shows[i].rating_key = key

\* C11 as stated: a show among the first three of the ranking that has an
\* episode watched in a year is in that year's top-3, whatever its release
\* year.
ShowWatchedInYearIsEligible ==
  RankedShowsLoaded =>
    \A year \in Years :
      \A i \in DOMAIN rankings :
        (i <= 3 /\ year \in EpisodeWatchYears(rankings[i].rating_key))
          => rankings[i].title \in Range(GetTop3ForYear(year))

\* C11 amended: a ranked show is eligible for the top-3 of the year its
\* episode records give as release year, provided the show is in the display
\* list; the year in which it was watched plays no part. An entry of a
\* year's top-3 was released in that year, and a displayed show among the
\* first three of the ranking is in the top-3 of its release year.
ShowReleasedInYearIsEligible ==
  RankedShowsLoaded =>
    \A year \in Years :
      \A i \in DOMAIN rankings :
        LET key == rankings[i].rating_key
        IN /\ rankings[i].title \in Range(GetTop3ForYear(year))
                => (IsDisplayed(key) /\ FirstEpisodeYear(key) = year)
           /\ (i <= 3 /\ IsDisplayed(key) /\ FirstEpisodeYear(key) = year)
                => rankings[i].title \in Range(GetTop3ForYear(year))

\* C11 witness: the show ranked first was watched in 2023 only and released
\* in 2024; it is in the top-3 of 2024 and not in the top-3 of 2023.
ShowReleasedInYearIsEligibleWitness ==
  /\ RankedShowsLoaded /\ rankings # <<>>
  /\ EpisodeWatchYears(rankings[1].rating_key) = {2023}
  /\ FirstEpisodeYear(rankings[1].rating_key) = 2024
  /\ rankings[1].title \in Range(GetTop3ForYear(2024))
  /\ rankings[1].title \notin Range(GetTop3ForYear(2023))

RankedComicsLoaded == view \in ComicViews /\ RankingsLoaded

\* The series has one issue in the snapshot that was read in the year and
\* whose title gives the year as its release year.
IssueReadAndReleasedIn(key, year) ==
  \E i \in DOMAIN snapshot :
    /\ snapshot[i].seriesId = key
    /\ TrueYear(snapshot[i].watchDate) = year
    /\ YearInTitle(snapshot[i].bookTitle) = year

\* C12 as stated: a series in a year's top list has one issue that was both
\* read in that year and released in that year, in either ComicBooksView.
ComicEligibleOnlyByIssueReadAndReleased ==
  RankedComicsLoaded =>
    \A year \in Years :
      \A i \in DOMAIN rankings :
        rankings[i] \in Range(GetTop3ForYear(year))
          => IssueReadAndReleasedIn(rankings[i].rating_key, year)

\* The same for the ComicBooksView of MoviesView.jsx alone, where it is also
\* sufficient for the first three of the ranking.
IssueVersionEligibleByIssueReadAndReleased ==
  (RankedComicsLoaded /\ view = "comics") =>
    \A year \in Years :
      \A i \in DOMAIN rankings :
        /\ rankings[i] \in Range(GetTop3ForYear(year))
             => IssueReadAndReleasedIn(rankings[i].rating_key, year)
        /\ (i <= 3 /\ IssueReadAndReleasedIn(rankings[i].rating_key, year))
             => rankings[i] \in Range(GetTop3ForYear(year))

(***************************************************************************)
(* Part III.  The ranking editor (AdminRankingTab.jsx) of the movies view, *)
(* the Rankings tab (RankingTab.jsx) and the view's own copy of the        *)
(* ranking.  The editor is only rendered in development mode (MoviesView   *)
(* lines 439-445), so IS_DEV is true and saveRankings posts to the server. *)
(* The ranking file is the variable rankingFile of Part II.                *)
(***************************************************************************)

MaxEdits == 2          \* adds, removes and drops made in the editor

\* The `movies` prop of the editor: the processed watch events of the view
\* (MoviesView lines 197-221), one per movie here.  Every event has the
\* poster path made from its rating_key and the year of its watch date; the
\* thumb is the one of the history record, "" (falsy) when it has none.
EditorKeys == {"A", "B", "C"}
PosterUrl(key) ==
  CASE key = "A" -> "/data/posters/A.jpg"
    [] key = "B" -> "/data/posters/B.jpg"
    [] OTHER -> "/data/posters/C.jpg"
LibraryMovie(key) ==
  [id |-> 1, rating_key |-> key, title |-> TitleOf(key),
   poster |-> PosterUrl(key),
   thumb |-> IF key = "A" THEN "/library/metadata/A/thumb" ELSE "",
   year |-> GetFullYear(Today),
   date |-> Today, watchDate |-> Today, rating |-> "null"]
Library == {LibraryMovie(key) : key \in EditorKeys}

\* if (item.poster) / if (item.thumb) / if (item.year)
\* (AdminRankingTab lines 227-239)
Truthy(f, v) == IF f = "year" THEN v # 0 ELSE v # ""

\* minimalRankings (AdminRankingTab lines 221-242)
Minimal(item) ==
  [f \in {"rating_key", "title"}
         \cup {g \in {"poster", "thumb", "year"} \cap DOMAIN item : Truthy(g, item[g])}
     |-> item[f]]
MinimalRankingsKeepingAll(rankingsToSave) == rankingsToSave
MinimalRankings(rankingsToSave) == Map(rankingsToSave, Minimal)

\* restoredRankings (AdminRankingTab lines 77-89, RankingTab lines 64-67):
\* every entry gets a watchDate, and in the editor a poster property that is
\* undefined ("" here) when the file has none.
Restored(r, withPoster) ==
  [f \in DOMAIN r \cup {"watchDate"} \cup (IF withPoster THEN {"poster"} ELSE {})
     |-> IF f \in DOMAIN r THEN r[f] ELSE IF f = "watchDate" THEN Today ELSE ""]
RestoredForEditor(r) == Restored(r, TRUE)
RestoredForTab(r) == Restored(r, FALSE)

\* The ranking files the page can start with: entries an earlier session of
\* the editor saved, and entries written by hand with an identity and a
\* title only.
FileEntry(key) ==
  IF key = "C" THEN RankingEntry(key) ELSE Minimal(LibraryMovie(key))
SavedFiles ==
  {[i \in DOMAIN s |-> FileEntry(s[i])] :
     s \in {t \in UNION {[1..n -> EditorKeys] : n \in 0..2} :
              \A i, j \in DOMAIN t : i # j => t[i] # t[j]}}

\* The movies view has fetched nothing that matters here and has loaded the
\* ranking file into its state when it was mounted (MoviesView lines 61-94).
InitAdmin ==
  /\ CacheUntouched
  /\ NoServer
  /\ NoScripts
  /\ view = "movies" /\ snapshot = <<>> /\ loading = FALSE
  /\ movies = <<>> /\ shows = <<>> /\ comics = <<>>
  /\ allWatchData = <<>> /\ years = <<>>
  /\ viewCache = <<>> /\ moved = 0 /\ prior = <<>>
  /\ rankingFile \in SavedFiles
  /\ rankings = rankingFile
  /\ NoEditor

\* What an edit leaves behind: the list before and after and whether a
\* request was made.
Edit(op, arg, before, after, saved) ==
  [op |-> op, arg |-> arg, before |-> before, after |-> after, saved |-> saved]

\* saveRankings up to the POST (AdminRankingTab lines 218-277): the minimal
\* list goes to localStorage, then the request is made.
SaveRankings(rankingsToSave) ==
  /\ localStorage' = MinimalRankings(rankingsToSave)
  /\ posts' = Append(posts, [body |-> MinimalRankings(rankingsToSave),
                             backup |-> localStorage'])

NoSave == UNCHANGED <<localStorage, posts>>

\* addToRankings (lines 194-207)
AddedAgain(current, movie) == Append(current, movie)
Added(current, movie) ==
  IF \E i \in DOMAIN current : current[i].rating_key = movie.rating_key
  THEN current
  ELSE Append(current, movie)

AddToRankings(movie) ==
  /\ activeTab = "admin" /\ edits < MaxEdits
  /\ LET present == \E i \in DOMAIN adminRankings :
                      adminRankings[i].rating_key = movie.rating_key
     IN /\ adminRankings' = Added(adminRankings, movie)
        /\ IF present THEN NoSave ELSE SaveRankings(adminRankings')
        /\ lastEdit' = Edit("add", movie.rating_key, adminRankings, adminRankings',
                            posts' # posts)
  /\ edits' = edits + 1
  /\ UNCHANGED <<activeTab, isLoading, tabRankings, tabLoading, lastSaved, saveLog>>
  /\ UNCHANGED <<cacheVars, viewVars, serverVars, scriptVars>>

\* removeFromRankings (lines 209-216): saveRankings is called in any case.
Removed(current, ratingKey) ==
  SelectSeq(current, LAMBDA r : r.rating_key # ratingKey)

RemoveFromRankings(ratingKey) ==
  /\ activeTab = "admin" /\ ~isLoading /\ edits < MaxEdits
  /\ \E i \in DOMAIN adminRankings : adminRankings[i].rating_key = ratingKey
  /\ adminRankings' = Removed(adminRankings, ratingKey)
  /\ SaveRankings(adminRankings')
  /\ lastEdit' = Edit("remove", ratingKey, adminRankings, adminRankings',
                      posts' # posts)
  /\ edits' = edits + 1
  /\ UNCHANGED <<activeTab, isLoading, tabRankings, tabLoading, lastSaved, saveLog>>
  /\ UNCHANGED <<cacheVars, viewVars, serverVars, scriptVars>>

\* Array.prototype.splice on 0-based indices: remove one, insert one.
SpliceOut(arr, index) ==
  [i \in 1..(Len(arr) - 1) |-> IF i <= index THEN arr[i] ELSE arr[i + 1]]
SpliceIn(arr, index, item) ==
  [i \in 1..(Len(arr) + 1) |->
     IF i <= index THEN arr[i] ELSE IF i = index + 1 THEN item ELSE arr[i - 1]]

\* The functional update of handleDrop (lines 174-188).
AdjustedDropIndexUnadjusted(sourceIndex, dropIndex) == dropIndex
AdjustedDropIndex(sourceIndex, dropIndex) ==
  IF sourceIndex < dropIndex THEN dropIndex - 1 ELSE dropIndex

Dropped(current, sourceIndex, dropIndex) ==
  IF sourceIndex < 0 \/ sourceIndex >= Len(current)
  THEN current
  ELSE SpliceIn(SpliceOut(current, sourceIndex),
                AdjustedDropIndex(sourceIndex, dropIndex),
                current[sourceIndex + 1])

\* handleDrop (lines 157-192).  sourceIndex is draggedIndex or the index
\* parsed from the drag data (-1 when there is none); it can be past the end
\* when the list got shorter while the entry was dragged.  dropIndex is the
\* index of the entry the drop lands on.
HandleDrop(sourceIndex, dropIndex) ==
  /\ activeTab = "admin" /\ ~isLoading /\ edits < MaxEdits
  /\ dropIndex \in 0..(Len(adminRankings) - 1)
  /\ sourceIndex \in -1..Len(adminRankings)
  /\ LET returnsEarly == sourceIndex = -1 \/ sourceIndex = dropIndex
         inRange == sourceIndex >= 0 /\ sourceIndex < Len(adminRankings)
     IN /\ adminRankings' = IF returnsEarly THEN adminRankings
                            ELSE Dropped(adminRankings, sourceIndex, dropIndex)
        /\ IF returnsEarly \/ ~inRange THEN NoSave ELSE SaveRankings(adminRankings')
        /\ lastEdit' = Edit("drop", <<sourceIndex, dropIndex>>, adminRankings,
                            adminRankings', posts' # posts)
  /\ edits' = edits + 1
  /\ UNCHANGED <<activeTab, isLoading, tabRankings, tabLoading, lastSaved, saveLog>>
  /\ UNCHANGED <<cacheVars, viewVars, serverVars, scriptVars>>

\* The load effect of the editor (lines 20-121) gets the ranking from the
\* server.
AdminLoaded ==
  /\ activeTab = "admin" /\ isLoading
  /\ adminRankings' = Map(rankingFile, RestoredForEditor)
  /\ isLoading' = FALSE
  /\ lastEdit' = NoEdit
  /\ UNCHANGED <<activeTab, localStorage, posts, edits, tabRankings, tabLoading,
                 lastSaved, saveLog>>
  /\ UNCHANGED <<cacheVars, viewVars, serverVars, scriptVars>>

\* The load effect fails (lines 91-112): localStorage is the fallback when
\* the editor has no entries.
AdminLoadFailed ==
  /\ activeTab = "admin" /\ isLoading
  /\ adminRankings' = IF adminRankings = <<>> /\ localStorage # <<>>
                      THEN Map(localStorage, RestoredForTab)
                      ELSE adminRankings
  /\ isLoading' = FALSE
  /\ lastEdit' = NoEdit
  /\ UNCHANGED <<activeTab, localStorage, posts, edits, tabRankings, tabLoading,
                 lastSaved, saveLog>>
  /\ UNCHANGED <<cacheVars, viewVars, serverVars, scriptVars>>

\* setActiveTab (MoviesView lines 439-445): the tab left is unmounted and
\* the tab opened is mounted and starts its load effect.
OpenTab(tab) ==
  /\ tab \in {"main", "ranking", "admin"} /\ tab # activeTab
  /\ activeTab' = tab
  /\ adminRankings' = <<>> /\ isLoading' = TRUE
  /\ tabRankings' = <<>> /\ tabLoading' = (tab = "ranking")
  /\ lastEdit' = NoEdit
  /\ UNCHANGED <<localStorage, posts, edits, lastSaved, saveLog>>
  /\ UNCHANGED <<cacheVars, viewVars, serverVars, scriptVars>>

\* handleRankingsSaved of the view (MoviesView lines 96-111): cache.clear()
\* (cache.js lines 98-105) empties both tiers and returns undefined, so
\* reading .then of it throws a TypeError and loadRankings is not called.
ViewHandlesRankingsSaved(durable) ==
  /\ memoryCache' = EmptyMap
  /\ idb' = IF db = "open" THEN EmptyMap ELSE durable
  /\ rankings' = rankings

\* The POST of save i is answered with success; the rest of saveRankings
\* runs (lines 279-311): the cached ranking is deleted from the durable
\* store, the editor (if still mounted) takes the minimal list, and the
\* rankingsSaved event reaches the listeners of the view and of the
\* Rankings tab (RankingTab lines 124-127).  The requests are independent
\* fetches: one sent later can be processed and answered before an older
\* one (i > 1).
SaveSucceeds(i) ==
  /\ i \in DOMAIN posts
  /\ rankingFile' = posts[i].body
  /\ posts' = Remove(posts, i)
  /\ lastSaved' = <<posts[i].body>>
  /\ saveLog' = [saveLog EXCEPT !.overtaken = @ \/ i > 1]
  /\ adminRankings' = IF activeTab = "admin" THEN posts[i].body ELSE adminRankings
  /\ ViewHandlesRankingsSaved(MapDelete(idb, "rankings-movies"))
  /\ tabLoading' = (tabLoading \/ activeTab = "ranking")
  /\ lastEdit' = NoEdit
  /\ UNCHANGED <<activeTab, isLoading, localStorage, edits, tabRankings>>
  /\ UNCHANGED <<db, now, calls, last, sinceClear, justSet, ticks>>
  /\ UNCHANGED <<view, snapshot, loading, movies, shows, comics, allWatchData, years,
                 viewCache, moved, prior>>
  /\ UNCHANGED <<serverVars, scriptVars>>

\* The POST fails or is answered with an error status (lines 272-276 and
\* 312-317): only the save status changes.
SaveFails ==
  /\ posts # <<>>
  /\ posts' = Tail(posts)
  /\ saveLog' = [saveLog EXCEPT !.failed = TRUE]
  /\ lastEdit' = NoEdit
  /\ UNCHANGED <<activeTab, adminRankings, isLoading, localStorage, edits, tabRankings,
                 tabLoading, lastSaved>>
  /\ UNCHANGED <<cacheVars, viewVars, serverVars, scriptVars>>

\* loadRankings of the Rankings tab (RankingTab lines 17-103) gets the
\* ranking from the server, caches it and shows it.
TabLoaded ==
  /\ activeTab = "ranking" /\ tabLoading
  /\ tabRankings' = Map(rankingFile, RestoredForTab)
  /\ tabLoading' = FALSE
  /\ memoryCache' = MapSet(memoryCache, "rankings-movies", Entry(tabRankings', now))
  /\ db' = "open"
  /\ idb' = MapSet(idb, "rankings-movies", Entry(tabRankings', now))
  /\ lastEdit' = NoEdit
  /\ UNCHANGED <<activeTab, adminRankings, isLoading, localStorage, posts, edits,
                 lastSaved, saveLog>>
  /\ UNCHANGED <<now, calls, last, sinceClear, justSet, ticks>>
  /\ UNCHANGED <<viewVars, serverVars, scriptVars>>

NextAdmin ==
  \/ \E tab \in {"main", "ranking", "admin"} : OpenTab(tab)
  \/ AdminLoaded
  \/ AdminLoadFailed
  \/ \E movie \in Library : AddToRankings(movie)
  \/ \E ratingKey \in EditorKeys : RemoveFromRankings(ratingKey)
  \/ \E sourceIndex \in -1..Cardinality(EditorKeys) :
       \E dropIndex \in 0..(Cardinality(EditorKeys) - 1) :
         HandleDrop(sourceIndex, dropIndex)
  \/ \E i \in 1..MaxEdits : SaveSucceeds(i)
  \/ SaveFails
  \/ TabLoaded

SpecAdmin == InitAdmin /\ [][NextAdmin]_vars

\* The browser and the server keep running: a request in flight is answered
\* and a load that was started finishes.  Nothing obliges the user to act.
FairSpecAdmin ==
  /\ SpecAdmin
  /\ WF_vars((\E i \in 1..MaxEdits : SaveSucceeds(i)) \/ SaveFails)
  /\ WF_vars(AdminLoaded \/ AdminLoadFailed)
  /\ WF_vars(TabLoaded)

(***************************************************************************)
(* Properties of the ranking editor.                                       *)
(***************************************************************************)

NoTwoWithSameKey(list) ==
  \A i, j \in DOMAIN list : i # j => list[i].rating_key # list[j].rating_key

HasKey(list, key) == \E i \in DOMAIN list : list[i].rating_key = key

\* C13: the ranking list never holds two entries with the same rating_key,
\* whatever was added, removed or moved, and adding an identity that is
\* already in the list leaves the list as it was and makes no save.
RankingIsASetOfIdentities ==
  /\ NoTwoWithSameKey(adminRankings)
  /\ (lastEdit.op = "add" /\ HasKey(lastEdit.before, lastEdit.arg)) =>
       /\ adminRankings = lastEdit.before
       /\ ~lastEdit.saved

RankingIsASetOfIdentitiesWitness ==
  /\ lastEdit.op = "add" /\ HasKey(lastEdit.before, lastEdit.arg)
  /\ Len(lastEdit.before) >= 2
  /\ edits = MaxEdits

\* C14: a drop of the entry at index s on slot d, both in range and
\* different, gives a list of the same length with the same entries, the
\* other entries in the order they had, and the moved entry at index d - 1
\* when s < d and at index d when s > d; a drop whose s is out of range
\* leaves the list as it was.
DropMovesOneEntry ==
  lastEdit.op = "drop" =>
    LET s == lastEdit.arg[1]
        d == lastEdit.arg[2]
        before == lastEdit.before
        key == before[s + 1].rating_key
    IN IF s < 0 \/ s >= Len(before)
       THEN adminRankings = before
       ELSE s # d =>
              /\ Len(adminRankings) = Len(before)
              /\ Range(adminRankings) = Range(before)
              /\ Removed(adminRankings, key) = Removed(before, key)
              /\ adminRankings[(IF s < d THEN d - 1 ELSE d) + 1] = before[s + 1]

DropMovesOneEntryWitness ==
  /\ lastEdit.op = "drop"
  /\ lastEdit.arg[1] = 0 /\ lastEdit.arg[2] = 2
  /\ Len(lastEdit.before) = 3
  /\ adminRankings # lastEdit.before

DropOutOfRangeReached ==
  /\ lastEdit.op = "drop"
  /\ lastEdit.arg[1] = Len(lastEdit.before)

\* The fields a stored entry may have.
MinimalFields == {"rating_key", "title", "poster", "thumb", "year"}

IsMinimalProjection(stored, list) ==
  /\ Len(stored) = Len(list)
  /\ \A i \in DOMAIN stored :
       /\ DOMAIN stored[i] \subseteq MinimalFields
       /\ {"rating_key", "title"} \subseteq DOMAIN stored[i]
       /\ stored[i].rating_key = list[i].rating_key
       /\ stored[i].title = list[i].title
       /\ \A f \in {"poster", "thumb", "year"} :
            IF f \in DOMAIN list[i] /\ Truthy(f, list[i][f])
            THEN f \in DOMAIN stored[i] /\ stored[i][f] = list[i][f]
            ELSE f \notin DOMAIN stored[i]

\* C15: an add, remove or drop that changes the list makes a save, and a
\* save has written the minimal projection of the new list, in the order of
\* the list, to localStorage by the time it makes its request.
ChangeIsMirroredBeforePost ==
  lastEdit.op # "none" =>
    /\ lastEdit.before # adminRankings => lastEdit.saved
    /\ lastEdit.saved =>
         /\ IsMinimalProjection(localStorage, adminRankings)
         /\ posts # <<>>
         /\ posts[Len(posts)].backup = localStorage
         /\ posts[Len(posts)].body = localStorage

ChangeIsMirroredBeforePostWitness ==
  /\ lastEdit.op = "drop" /\ lastEdit.saved
  /\ lastEdit.before # adminRankings
  /\ \E i \in DOMAIN adminRankings : "watchDate" \in DOMAIN adminRankings[i]
  /\ \E i \in DOMAIN localStorage : "poster" \notin DOMAIN localStorage[i]
  /\ \E i \in DOMAIN localStorage : "year" \in DOMAIN localStorage[i]

\* The view's per-year top-3 block is drawn from `rankings`; the Rankings
\* tab, while it is open, from `tabRankings`.
ViewIsStale ==
  lastSaved # <<>> /\ Keys(rankings) # Keys(lastSaved[1])
TabIsStale ==
  lastSaved # <<>> /\ activeTab = "ranking" /\ Keys(tabRankings) # Keys(lastSaved[1])

\* C16: after a successful save every mounted read-only display of the
\* ranking, the Rankings tab and the top-3 block of the view, eventually
\* shows the list that was saved.
SavedRankingIsEventuallyShown ==
  (ViewIsStale \/ TabIsStale) ~> ~(ViewIsStale \/ TabIsStale)

\* The part of C16 that the Rankings tab does: its listener reloads with
\* loadRankings(true).
RankingsTabEventuallyShowsSaved == TabIsStale ~> ~TabIsStale

\* The part of C16 about the cache: neither tier of the cache holds a
\* ranking other than the one in the ranking file.
CachedRankingIsCurrent ==
  /\ "rankings-movies" \in DOMAIN memoryCache =>
       Keys(memoryCache["rankings-movies"].value) = Keys(rankingFile)
  /\ "rankings-movies" \in DOMAIN idb =>
       Keys(idb["rankings-movies"].value) = Keys(rankingFile)

\* A save succeeded while the Rankings tab was open.
SavedWithTabOpenReached ==
  lastSaved # <<>> /\ activeTab = "ranking" /\ tabLoading /\ tabRankings # <<>>

(***************************************************************************)
(* Part IV.  The Express server (server.js): the ranking endpoints, the    *)
(* poster proxy and the history proxy.                                     *)
(***************************************************************************)

MaxRequests == 3       \* requests the server takes

\* The :contentType values of the requests: the three content types of the
\* site and a value that is none of them.
ContentTypes == {"movies", "tv", "comics", "books"}

\* getRankingsPath (lines 213-221)
GetRankingsPathWithoutComics(contentType) ==
  IF contentType = "tv" THEN "tv-rankings.json" ELSE "movie-rankings.json"
GetRankingsPath(contentType) ==
  IF contentType = "tv" THEN "tv-rankings.json"
  ELSE IF contentType = "comics" THEN "comic-rankings.json"
  ELSE "movie-rankings.json"

RankingFileNames == {GetRankingsPath(t) : t \in ContentTypes}

\* What a ranking file can hold: nothing (it does not exist), the JSON text
\* of an array, or text cut short by a write that failed.  The arrays are
\* values express.json() parsed from JSON text, so JSON.stringify followed by
\* JSON.parse gives them back.
Absent == [exists |-> FALSE]
Written(array) == [exists |-> TRUE, parses |-> TRUE, json |-> array]
CutShort == [exists |-> TRUE, parses |-> FALSE]

\* The request bodies.  kind is what the JSON text of the body is: an array
\* (value is the array), an object, a primitive (a string such as
\* "not an array", a number, null), or "none" when the request has no JSON
\* body.
PostedArrays == {<<RankingEntry("A")>>, <<RankingEntry("B"), RankingEntry("A")>>}
Bodies ==
  {[kind |-> "array", text |-> "", value |-> a] : a \in PostedArrays}
    \cup {[kind |-> "object", text |-> "{\"rankings\": []}", value |-> <<>>],
          [kind |-> "primitive", text |-> "\"not an array\"", value |-> <<>>],
          [kind |-> "none", text |-> "", value |-> <<>>]}

\* app.use(express.json()) (line 19): the parser is strict, it accepts only
\* arrays and objects and answers 400 itself for any other JSON text.
ExpressJsonRejects(body) == body.kind = "primitive"

\* if (!rankings) (lines 252-255)
NoRankingsData(body) == body.kind = "none"

\* if (!Array.isArray(rankings)) (lines 258-261)
NotAnArrayUnchecked(body) == FALSE
NotAnArray(body) == body.kind # "array"

\* fs.writeFileSync(filePath, JSON.stringify(rankings, null, 2)) (line 264):
\* the text of the array replaces what the file held.
FileAfterWriteMerged(old, array) ==
  IF old.exists /\ old.parses THEN Written(old.json \o array) ELSE Written(array)
FileAfterWrite(old, array) == Written(array)

InitServer ==
  /\ CacheUntouched
  /\ NoView
  /\ NoEditor
  /\ NoScripts
  /\ plexToken \in {"", "your_plex_token_here", "token"}
  /\ files = [f \in RankingFileNames |-> Absent]
  /\ posted = <<>>
  /\ reply = NoReply
  /\ history = Idle
  /\ served = 0

\* app.post('/api/rankings/:contentType') (lines 246-275).  write is what
\* writeFileSync does: it writes the file, or throws leaving the file as it
\* was or cut short.
PostRankings(contentType, body, write) ==
  /\ served < MaxRequests
  /\ served' = served + 1
  /\ LET filePath == GetRankingsPath(contentType)
         status == IF ExpressJsonRejects(body) \/ NoRankingsData(body)
                      \/ NotAnArray(body)
                   THEN 400
                   ELSE IF write = "written" THEN 200 ELSE 500
     IN /\ files' = IF status = 400 \/ write = "refused" THEN files
                    ELSE IF write = "written"
                    THEN [files EXCEPT ![filePath] = FileAfterWrite(@, body.value)]
                    ELSE [files EXCEPT ![filePath] = CutShort]
        /\ posted' = IF status = 200
                     THEN Append(posted, [contentType |-> contentType,
                                          rankings |-> body.value])
                     ELSE posted
        /\ reply' = [route |-> "POST rankings", contentType |-> contentType,
                     body |-> body, status |-> status,
                     changed |-> {f \in RankingFileNames : files'[f] # files[f]}]
  /\ UNCHANGED <<plexToken, history>>
  /\ UNCHANGED <<cacheVars, viewVars, editorVars, scriptVars>>

\* app.get('/api/rankings/:contentType') (lines 224-243).  readable is
\* whether readFileSync returns the text of a file that exists.
GetRankings(contentType, readable) ==
  /\ served < MaxRequests
  /\ served' = served + 1
  /\ LET file == files[GetRankingsPath(contentType)]
     IN reply' =
          IF ~file.exists
          THEN [route |-> "GET rankings", contentType |-> contentType,
                existed |-> FALSE, status |-> 200, json |-> <<>>, error |-> ""]
          ELSE IF readable /\ file.parses
          THEN [route |-> "GET rankings", contentType |-> contentType,
                existed |-> TRUE, status |-> 200, json |-> file.json, error |-> ""]
          ELSE [route |-> "GET rankings", contentType |-> contentType,
                existed |-> TRUE, status |-> 500, json |-> <<>>,
                error |-> "Failed to read rankings"]
  /\ UNCHANGED <<plexToken, files, posted, history>>
  /\ UNCHANGED <<cacheVars, viewVars, editorVars, scriptVars>>

\* The token test of the poster handler (lines 170-172).  An unset
\* PLEX_TOKEN is undefined, "" here.
PLACEHOLDER_TOKEN == "your_plex_token_here"
AnyToken(token) == TRUE
ValidToken(token) == token # "" /\ token # PLACEHOLDER_TOKEN

\* The requests the poster handler makes to the other services.
MetadataRequest == [to |-> "tautulli", cmd |-> "get_metadata"]
ImageProxyRequest == [to |-> "tautulli", cmd |-> "get_pms_image"]
PlexRequest(token) == [to |-> "plex", token |-> token]

\* app.get('/api/poster') (lines 127-202).  thumb and ratingKey are the
\* query parameters ("" when missing); metadata, proxy and plex are what the
\* three upstream requests do if they are made: metadata has a thumb, has
\* none or throws; the others answer OK, answer not OK or throw.
GetPoster(thumb, ratingKey, metadata, proxy, plex) ==
  /\ served < MaxRequests
  /\ served' = served + 1
  /\ LET asksMetadata == thumb = "" /\ ratingKey # ""
         thumbPath == IF thumb # "" THEN thumb
                      ELSE IF asksMetadata /\ metadata = "thumb"
                      THEN "/library/metadata/1/thumb"
                      ELSE ""
         first == IF asksMetadata THEN <<MetadataRequest>> ELSE <<>>
         answer(status, sent, tried) ==
           [route |-> "GET poster", status |-> status, sent |-> sent,
            proxy |-> IF tried THEN proxy ELSE "not tried"]
     IN reply' =
          IF asksMetadata /\ metadata = "throws" THEN answer(500, first, FALSE)
          ELSE IF thumbPath = "" THEN answer(404, first, FALSE)
          ELSE IF proxy = "ok"
          THEN answer(200, Append(first, ImageProxyRequest), TRUE)
          ELSE IF ~ValidToken(plexToken)
          THEN answer(503, Append(first, ImageProxyRequest), TRUE)
          ELSE LET sent == first \o <<ImageProxyRequest, PlexRequest(plexToken)>>
               IN answer(IF plex = "ok" THEN 200
                         ELSE IF plex = "not ok" THEN 404 ELSE 500, sent, TRUE)
  /\ UNCHANGED <<plexToken, files, posted, history>>
  /\ UNCHANGED <<cacheVars, viewVars, editorVars, scriptVars>>

\* app.get('/api/history') (lines 38-107) up to the fetch: the 60-second
\* timer is set and the request to the upstream is made.
HistoryRequest(media_type) ==
  /\ served < MaxRequests
  /\ history.phase \in {"idle", "done"}
  /\ served' = served + 1
  /\ history' = [phase |-> "fetching", media_type |-> media_type, timer |-> TRUE,
                 replies |-> <<>>]
  /\ reply' = NoReply
  /\ UNCHANGED <<plexToken, files, posted>>
  /\ UNCHANGED <<cacheVars, viewVars, editorVars, scriptVars>>

\* res.status(...).json(...) / res.json(data) of the history handler.
HistoryAnswers(status, error) ==
  /\ history' = [history EXCEPT !.phase = "done", !.timer = FALSE,
                                !.replies = Append(@, status)]
  /\ reply' = [route |-> "GET history", status |-> status, error |-> error]

\* fetch resolves when the upstream has sent its response headers (lines
\* 63-76): the timer is cleared; a status that is not OK is thrown and ends
\* in the outer catch, otherwise the handler goes on to read the body.
UpstreamResponds(ok) ==
  /\ history.phase = "fetching"
  /\ IF ok
     THEN /\ history' = [history EXCEPT !.phase = "reading", !.timer = FALSE]
          /\ UNCHANGED reply
     ELSE HistoryAnswers(500, "Tautulli API returned an error status")
  /\ UNCHANGED <<plexToken, files, posted, served>>
  /\ UNCHANGED <<cacheVars, viewVars, editorVars, scriptVars>>

\* fetch rejects for a reason other than the abort (lines 93-106).
UpstreamFetchFails ==
  /\ history.phase = "fetching"
  /\ HistoryAnswers(500, "fetch failed")
  /\ UNCHANGED <<plexToken, files, posted, served>>
  /\ UNCHANGED <<cacheVars, viewVars, editorVars, scriptVars>>

\* The timer set at line 59 fires: controller.abort() makes the pending
\* fetch reject with an AbortError (lines 95-97).
TimerFires ==
  /\ history.phase \in {"fetching", "reading"}
  /\ history.timer
  /\ HistoryAnswers(504, "Request timeout")
  /\ UNCHANGED <<plexToken, files, posted, served>>
  /\ UNCHANGED <<cacheVars, viewVars, editorVars, scriptVars>>

\* await response.json() (line 78) returns when the upstream has sent the
\* whole body: the data is filtered and sent (lines 83-92); a body that
\* breaks off or is not JSON makes it throw (lines 98-106).
BodyRead(valid) ==
  /\ history.phase = "reading"
  /\ IF valid THEN HistoryAnswers(200, "")
     ELSE HistoryAnswers(500, "invalid json response body")
  /\ UNCHANGED <<plexToken, files, posted, served>>
  /\ UNCHANGED <<cacheVars, viewVars, editorVars, scriptVars>>

NextServer ==
  \/ \E contentType \in ContentTypes, body \in Bodies :
       \E write \in {"written", "refused", "cut short"} :
         PostRankings(contentType, body, write)
  \/ \E contentType \in ContentTypes, readable \in BOOLEAN :
       GetRankings(contentType, readable)
  \/ \E thumb \in {"", "/library/metadata/1/thumb"}, ratingKey \in {"", "1"} :
       \E metadata \in {"thumb", "no thumb", "throws"} :
         \E proxy \in {"ok", "not ok", "throws"}, plex \in {"ok", "not ok", "throws"} :
           GetPoster(thumb, ratingKey, metadata, proxy, plex)
  \/ \E media_type \in {"", "movie", "episode"} : HistoryRequest(media_type)
  \/ \E ok \in BOOLEAN : UpstreamResponds(ok)
  \/ UpstreamFetchFails
  \/ TimerFires
  \/ \E valid \in BOOLEAN : BodyRead(valid)

SpecServer == InitServer /\ [][NextServer]_vars

\* The server's own timer fires when it is due; nothing obliges the upstream
\* to answer or to finish its body.
FairSpecServer == SpecServer /\ WF_vars(TimerFires)

(***************************************************************************)
(* Properties of the server.                                               *)
(***************************************************************************)

\* C17: a POST of rankings whose body is not an array is answered 400 and
\* leaves every ranking file as it was; a ranking file is changed only by a
\* POST whose body is an array.
NonArrayBodyIsRejected ==
  reply.route = "POST rankings" =>
    /\ reply.body.kind # "array" => (reply.status = 400 /\ reply.changed = {})
    /\ reply.changed # {} => reply.body.kind = "array"

NonArrayBodyIsRejectedWitness ==
  /\ reply.route = "POST rankings" /\ reply.contentType = "movies"
  /\ reply.body.kind = "object"
  /\ reply.status = 400
  /\ files["movie-rankings.json"].exists

PrimitiveBodyRejectedReached ==
  /\ reply.route = "POST rankings" /\ reply.body.kind = "primitive"
  /\ files["movie-rankings.json"].exists

\* The successful POSTs chosen by a test on their content type, and the
\* array of the last of them (<<>> when there is none).
LastPosted(Chosen(_)) ==
  LET chosen == SelectSeq(posted, LAMBDA p : Chosen(p.contentType))
  IN IF chosen = <<>> THEN <<>> ELSE <<chosen[Len(chosen)].rankings>>

\* Two content types whose rankings are kept in the same file: every value
\* that is neither 'tv' nor 'comics' stands for the movies.
SameRankingFile(t1, t2) ==
  /\ (t1 = "tv") = (t2 = "tv")
  /\ (t1 = "comics") = (t2 = "comics")

GetOfAbsentFileReached ==
  /\ reply.route = "GET rankings" /\ ~reply.existed /\ reply.contentType = "tv"
  /\ files["movie-rankings.json"].exists

\* C19: when the image proxy was tried and failed and PLEX_TOKEN is unset or
\* the placeholder, the poster handler answers 503 and sends nothing to the
\* media server; every request it sends to the media server carries the
\* configured token.
NoPlexRequestWithoutToken ==
  reply.route = "GET poster" =>
    /\ (reply.proxy \in {"not ok", "throws"} /\ plexToken \in {"", PLACEHOLDER_TOKEN}) =>
         /\ reply.status = 503
         /\ \A i \in DOMAIN reply.sent : reply.sent[i].to # "plex"
    /\ \A i \in DOMAIN reply.sent :
         reply.sent[i].to = "plex" =>
           /\ reply.sent[i].token = plexToken
           /\ plexToken \notin {"", PLACEHOLDER_TOKEN}

NoPlexRequestWithoutTokenWitness ==
  /\ reply.route = "GET poster"
  /\ reply.proxy = "throws" /\ plexToken = PLACEHOLDER_TOKEN
  /\ reply.status = 503
  /\ reply.sent = <<MetadataRequest, ImageProxyRequest>>

PlexRequestReached ==
  /\ reply.route = "GET poster"
  /\ \E i \in DOMAIN reply.sent : reply.sent[i].to = "plex"

\* C20: every request for the history is answered.
HistoryIsAnswered ==
  (history.phase \in {"fetching", "reading"}) ~> (history.phase = "done")

\* The parts of C20 that the handler does: no request is answered twice,
\* the statuses are 200, 500 and 504, and a request whose upstream has not
\* sent its headers does not wait forever.
HistoryAnsweredAtMostOnce ==
  history.phase # "idle" =>
    /\ Len(history.replies) = (IF history.phase = "done" THEN 1 ELSE 0)
    /\ \A i \in DOMAIN history.replies : history.replies[i] \in {200, 500, 504}
HistoryFetchEnds ==
  (history.phase = "fetching") ~> (history.phase # "fetching")

\* The upstream has sent its headers and the timer is cleared.
ReadingWithoutTimerReached ==
  history.phase = "reading" /\ ~history.timer

(***************************************************************************)
(* Properties of the cache under overlapping calls and store failures.     *)
(***************************************************************************)

\* C21: when set() calls of one key overlapped and all of them have
\* completed, none of them having failed and no get() or clear() having
\* changed a tier meanwhile, the memory tier and the durable store both hold
\* the value and timestamp of the call that was made last.
SetIsLastWriteWins ==
  (last.op = "set" /\ last.raced) =>
     /\ last.key \in DOMAIN memoryCache /\ memoryCache[last.key] = last.winner
     /\ last.key \in DOMAIN idb /\ idb[last.key] = last.winner

\* The memory tier alone is last-write-wins.
MemoryIsLastWriteWins ==
  (last.op = "set" /\ last.raced) =>
     last.key \in DOMAIN memoryCache /\ memoryCache[last.key] = last.winner

\* Two set() calls that both waited for the database to open have completed
\* in the order they were made.
OverlappingSetsReached ==
  /\ last.op = "set" /\ last.raced
  /\ last.winner.value = last.value
  /\ idb[last.key] = last.winner

\* C22: get() and set() never reject; a get() whose database could not be
\* opened or whose transaction failed resolves to null; and when a set(k, v)
\* could not store v durably, the get(k) that directly follows it still
\* returns v, from the memory tier.
StoreFailuresAreSwallowed ==
  /\ (last.op \in {"get", "set"}) => last.outcome \in {"ok", "error", "miss", "expired"} \cup Hits
  /\ (last.op = "get" /\ last.outcome = "error") => last.value = JsNull
  /\ (last.op = "set" /\ last.outcome = "error" /\ justSet # {}) =>
        /\ last.key \in DOMAIN memoryCache
        /\ memoryCache[last.key] = Entry(last.value, now)
  /\ (/\ last.op = "get" /\ last.afterSet # {}
      /\ (last.key \notin DOMAIN idb \/ idb[last.key].timestamp # now)) =>
        /\ last.outcome = "hit-memory"
        /\ \A p \in last.afterSet : last.value = p[2]

\* C22 witness: the database is open, the transaction of set(k, "v1") failed
\* so that the durable store still holds its older entry, and the get(k)
\* that followed has returned.
StoreFailuresAreSwallowedWitness ==
  /\ last.op = "get" /\ last.afterSet = {<<last.key, "v1">>}
  /\ db = "open"
  /\ last.key \in DOMAIN idb /\ idb[last.key].timestamp # now

\* A get() whose database could not be opened has returned.
GetWithoutDatabaseReached ==
  last.op = "get" /\ last.outcome = "error" /\ db = "null"

\* A set() whose database could not be opened has returned.
FailedSetReached ==
  last.op = "set" /\ last.outcome = "error" /\ justSet # {} /\ db = "null"

(***************************************************************************)
(*                   Part V: the data-fetch scripts                        *)
(***************************************************************************)

\* ---- fetch-comic-books-data.js: the page loops --------------------------

\* const size = 1000 (lines 27 and 74); the model pages by `size` records.
size == 2
\* The upstream library has at most MaxPages pages.
MaxPages == 3

\* A record of the upstream: its page, its place in the page, and whether
\* its readProgress is null.
KomgaRecord(p, i, rp) == [page |-> p, index |-> i, readProgress |-> rp]

\* What page p of the dataset d may hold: up to `size` records; a book has
\* read progress or none, a series has no such field (the model gives it
\* "read" throughout).
ReadProgress(d) == IF d = "books" THEN {"null", "read"} ELSE {"read"}
Contents(d, p) ==
  UNION {{[i \in 1..n |-> KomgaRecord(p, i, rp[i])] : rp \in [1..n -> ReadProgress(d)]}
         : n \in 0..size}

\* What the upstream answers to the request of page p of d: a page object with
\* a `content` array, a bare array, or a response that is not OK.  The last
\* page the upstream has is not a full page object.
NotOk == [ok |-> FALSE, shape |-> "none", content |-> <<>>]
Responses(d, p) ==
  {NotOk} \cup
  {[ok |-> TRUE, shape |-> sh, content |-> c] :
     sh \in {"page", "array"},
     c \in {x \in Contents(d, p) : p = MaxPages - 1 => Len(x) < size}}

\* Lines 45-46 and 91: data.content || data || [].
PageRecords(data) == data.content

\* Lines 48-55 and 93-100: whether the loop goes on to the next page.
HasMoreWhileNotEmpty(data) == data.shape = "page" /\ Len(data.content) # 0
HasMore(data) ==
  /\ ~(data.shape = "page" /\ Len(data.content) < size)
  /\ ~(data.shape # "page" \/ Len(data.content) = 0)

\* Line 59 of fetchBooks; fetchSeries returns allSeries (line 103).
WithProgress(book) == book.readProgress # "null"
Returned(d, all) == IF d = "books" THEN Filter(all, WithProgress) ELSE all

InitKomga ==
  /\ CacheUntouched
  /\ NoView
  /\ NoEditor
  /\ NoServer
  /\ NoKomga
  /\ NoPosters

\* fetchBooks() / fetchSeries() is called and sends the request of page 0
\* (lines 32 and 79); Promise.all at lines 152-155 calls fetchBooks first.
FetchCalled(d) ==
  /\ komga[d].pc = "start"
  /\ d = "series" => komga["books"].pc # "start"
  /\ komga' = [komga EXCEPT ![d].pc = "awaiting", ![d].requested = <<0>>]
  /\ UNCHANGED <<scriptToken, entries, posterFiles, batchStart, batch,
                 attempts, downloaded, skipped, run>>
  /\ UNCHANGED <<cacheVars, viewVars, editorVars, serverVars>>

\* The response of the page requested last arrives and one turn of the loop
\* runs: throw (lines 39-42, 86-88), or accumulate and either send the
\* next request or return.
PageArrives(d, data) ==
  /\ komga[d].pc = "awaiting"
  /\ LET l == komga[d]
         all == l.all \o PageRecords(data)
     IN komga' = [komga EXCEPT ![d] =
          IF ~data.ok
          THEN [l EXCEPT !.pc = "thrown", !.received = Append(@, data)]
          ELSE IF HasMore(data)
          THEN [l EXCEPT !.page = @ + 1, !.all = all,
                         !.received = Append(@, data),
                         !.requested = Append(@, l.page + 1)]
          ELSE [l EXCEPT !.pc = "done", !.all = all,
                         !.received = Append(@, data),
                         !.result = Returned(d, all)]]
  /\ UNCHANGED <<scriptToken, entries, posterFiles, batchStart, batch,
                 attempts, downloaded, skipped, run>>
  /\ UNCHANGED <<cacheVars, viewVars, editorVars, serverVars>>

NextKomga ==
  \/ \E d \in Datasets : FetchCalled(d)
  \/ \E d \in Datasets : \E data \in Responses(d, komga[d].page) : PageArrives(d, data)

SpecKomga == InitKomga /\ [][NextKomga]_vars

\* ---- properties of the page loops ---------------------------------------

RECURSIVE Flatten(_)
Flatten(pages) ==
  IF pages = <<>> THEN <<>> ELSE PageRecords(pages[1]) \o Flatten(Tail(pages))

\* Pages 0, 1, 2, ... were requested in this order, and at most the page
\* requested last has not been answered.
OnePageAtATime(d) ==
  /\ \A i \in DOMAIN komga[d].requested : komga[d].requested[i] = i - 1
  /\ Len(komga[d].received) <= Len(komga[d].requested)
  /\ Len(komga[d].requested) <= Len(komga[d].received) + 1
  /\ komga[d].pc = "awaiting" <=> Len(komga[d].requested) = Len(komga[d].received) + 1

\* No page was requested after a page with fewer than `size` records.
NoRequestAfterShortPage(d) ==
  \A i \in DOMAIN komga[d].received :
     i < Len(komga[d].requested) => Len(komga[d].received[i].content) >= size

\* What is returned is what the received pages held, in page order.
ReturnsReceivedInOrder(d) ==
  komga[d].pc = "done" =>
     komga[d].result = Returned(d, Flatten(komga[d].received))

LastReceived(d) == komga[d].received[Len(komga[d].received)]

\* C23 as stated: pages are requested one at a time in order, the loop stops
\* right after the first page with fewer than `size` records (an empty one
\* included) and not before, and returns the records of the received pages
\* in page order (books: those whose readProgress is not null).
LoopStopsAtFirstShortPage ==
  \A d \in Datasets :
     /\ OnePageAtATime(d)
     /\ NoRequestAfterShortPage(d)
     /\ komga[d].pc = "done" => Len(LastReceived(d).content) < size
     /\ ReturnsReceivedInOrder(d)

\* C23 amended: the same, but the loop also stops after a response that has
\* no `content` field (a bare array), however many records it holds; and a
\* response that is not OK makes the function throw instead of returning.
LoopStopsAtShortPageOrBareArray ==
  \A d \in Datasets :
     /\ OnePageAtATime(d)
     /\ NoRequestAfterShortPage(d)
     /\ komga[d].pc = "done" =>
           \/ Len(LastReceived(d).content) < size
           \/ LastReceived(d).shape = "array"
     /\ \A i \in DOMAIN komga[d].received :
           i < Len(komga[d].requested) => komga[d].received[i].shape = "page"
     /\ komga[d].pc = "thrown" <=>
           (komga[d].received # <<>> /\ ~LastReceived(d).ok)
     /\ ReturnsReceivedInOrder(d)

\* C23 witness: fetchBooks has returned after a full page and a short page,
\* leaving out a book whose readProgress is null.
LoopStopsWitness ==
  /\ komga["books"].pc = "done"
  /\ Len(komga["books"].received) = 2
  /\ Len(komga["books"].received[2].content) = 1
  /\ Len(komga["books"].result) < Len(komga["books"].all)
  /\ komga["books"].result # <<>>

\* fetchSeries has returned after a bare array of `size` records.
FullBareArrayReached ==
  /\ komga["series"].pc = "done"
  /\ LastReceived("series").shape = "array"
  /\ Len(LastReceived("series").content) = size

\* ---- fetch-data script: poster downloads --------------------------------

\* const batchSize = 10 (lines 146 and 207); the model downloads in batches
\* of `batchSize`.
batchSize == 2
\* The history has at most MaxEntries unique rating keys.
MaxEntries == 3

\* Line 83: PLEX_URL && PLEX_TOKEN && PLEX_TOKEN !== 'your_plex_token_here'
\* (PLEX_URL is configured).
PlexConfiguredAlways(token) == TRUE
PlexConfigured(token) == token # "" /\ token # "your_plex_token_here"

\* movieEntries (lines 134-147): one entry per rating key, each with a
\* thumb path (line 136 leaves out the records without one).
InitPosters ==
  /\ CacheUntouched
  /\ NoView
  /\ NoEditor
  /\ NoServer
  /\ NoKomga
  /\ scriptToken \in {"", "your_plex_token_here", "token"}
  /\ \E n \in 0..MaxEntries :
       /\ entries = [i \in 1..n |-> i]
       /\ posterFiles \in SUBSET (1..n)
       /\ attempts = [i \in 1..n |-> <<>>]
  /\ batchStart = 0
  /\ batch = <<>>
  /\ downloaded = 0
  /\ skipped = 0
  /\ run = "batches"

\* downloadPoster(ratingKey, thumbPath, postersDir) up to its first await
\* (lines 45-66): it returns true at once when the file exists, and sends
\* the request to the image proxy otherwise.
DownloadPosterCalled(key) ==
  [key |-> key, existed |-> key \in posterFiles,
   pc |-> IF key \in posterFiles THEN "true" ELSE "proxy",
   proxy |-> "none", plex |-> "none"]
RequestsOfCall(key) ==
  IF key \in posterFiles THEN <<"call">> ELSE <<"call", "proxy">>

\* Line 150: movieEntries.slice(i, i + batchSize).
BatchOfAllTheRest(i) == SubSeq(entries, i + 1, Len(entries))
BatchOf(i) == SubSeq(entries, i + 1, Min(i + batchSize, Len(entries)))

\* Lines 149-153: the next batch is cut and downloadPoster is called for
\* each of its entries.
StartBatch ==
  /\ run = "batches"
  /\ batchStart < Len(entries)
  /\ batch' = [j \in DOMAIN BatchOf(batchStart) |->
                 DownloadPosterCalled(BatchOf(batchStart)[j])]
  /\ attempts' = [e \in DOMAIN attempts |->
                    IF e \in Range(BatchOf(batchStart))
                    THEN attempts[e] \o RequestsOfCall(e) ELSE attempts[e]]
  /\ run' = "awaiting"
  /\ UNCHANGED <<komga, scriptToken, entries, posterFiles, batchStart,
                 downloaded, skipped>>
  /\ UNCHANGED <<cacheVars, viewVars, editorVars, serverVars>>

\* Lines 75-103 after the proxy attempt of download j did not give a file:
\* the media server is asked if it is configured, else false is returned.
FallBack(j, how) ==
  /\ batch' = [batch EXCEPT ![j].proxy = how,
                            ![j].pc = IF PlexConfigured(scriptToken)
                                      THEN "plex" ELSE "false"]
  /\ attempts' = [attempts EXCEPT ![batch[j].key] =
                    IF PlexConfigured(scriptToken) THEN Append(@, "plex") ELSE @]

\* The fetch of the image proxy settles (lines 64-80): with an OK response,
\* a response that is not OK, a network error, or the abort of the 10 s
\* timer.
ProxyResponds(j, how) ==
  /\ j \in DOMAIN batch /\ batch[j].pc = "proxy"
  /\ IF how = "ok"
     THEN /\ batch' = [batch EXCEPT ![j].pc = "proxyBody", ![j].proxy = "ok"]
          /\ UNCHANGED attempts
     ELSE FallBack(j, how)
  /\ UNCHANGED <<komga, scriptToken, entries, posterFiles, batchStart,
                 downloaded, skipped, run>>
  /\ UNCHANGED <<cacheVars, viewVars, editorVars, serverVars>>

\* Lines 71-73: the body of the proxy's response is read and written; a
\* failure of either is caught at line 75.
ProxyBody(j, how) ==
  /\ j \in DOMAIN batch /\ batch[j].pc = "proxyBody"
  /\ IF how = "written"
     THEN /\ batch' = [batch EXCEPT ![j].pc = "true", ![j].proxy = how]
          /\ posterFiles' = posterFiles \cup {batch[j].key}
          /\ UNCHANGED attempts
     ELSE /\ FallBack(j, how)
          /\ UNCHANGED posterFiles
  /\ UNCHANGED <<komga, scriptToken, entries, batchStart, downloaded, skipped, run>>
  /\ UNCHANGED <<cacheVars, viewVars, editorVars, serverVars>>

\* The fetch of the media server settles (lines 92-111).
PlexResponds(j, how) ==
  /\ j \in DOMAIN batch /\ batch[j].pc = "plex"
  /\ batch' = [batch EXCEPT ![j].plex = how,
                            ![j].pc = IF how = "ok" THEN "plexBody" ELSE "false"]
  /\ UNCHANGED <<komga, scriptToken, entries, posterFiles, batchStart,
                 attempts, downloaded, skipped, run>>
  /\ UNCHANGED <<cacheVars, viewVars, editorVars, serverVars>>

\* Lines 99-101: the body of the media server's response is read and
\* written; a failure of either is caught at line 104.
PlexBody(j, how) ==
  /\ j \in DOMAIN batch /\ batch[j].pc = "plexBody"
  /\ batch' = [batch EXCEPT ![j].plex = how,
                            ![j].pc = IF how = "written" THEN "true" ELSE "false"]
  /\ posterFiles' = IF how = "written" THEN posterFiles \cup {batch[j].key}
                    ELSE posterFiles
  /\ UNCHANGED <<komga, scriptToken, entries, batchStart, attempts,
                 downloaded, skipped, run>>
  /\ UNCHANGED <<cacheVars, viewVars, editorVars, serverVars>>

Settled(b) == \A j \in DOMAIN b : b[j].pc \in {"true", "false"}
Count(b, result) == Cardinality({j \in DOMAIN b : b[j].pc = result})

\* Promise.all of the batch resolves (lines 151-162): the results are
\* counted and the loop variable advances.
BatchSettles ==
  /\ run = "awaiting"
  /\ Settled(batch)
  /\ downloaded' = downloaded + Count(batch, "true")
  /\ skipped' = skipped + Count(batch, "false")
  /\ batchStart' = batchStart + batchSize
  /\ batch' = <<>>
  /\ run' = "batches"
  /\ UNCHANGED <<komga, scriptToken, entries, posterFiles, attempts>>
  /\ UNCHANGED <<cacheVars, viewVars, editorVars, serverVars>>

\* The loop has ended; movies.json is written (lines 172-184).
SaveData ==
  /\ run = "batches"
  /\ batchStart >= Len(entries)
  /\ run' = "saved"
  /\ UNCHANGED <<komga, scriptToken, entries, posterFiles, batchStart, batch,
                 attempts, downloaded, skipped>>
  /\ UNCHANGED <<cacheVars, viewVars, editorVars, serverVars>>

FetchFailures == {"not ok", "error", "timeout"}
BodyFailures == {"read failed", "write failed"}

NextPosters ==
  \/ StartBatch
  \/ \E j \in DOMAIN batch, how \in {"ok"} \cup FetchFailures : ProxyResponds(j, how)
  \/ \E j \in DOMAIN batch, how \in {"written"} \cup BodyFailures : ProxyBody(j, how)
  \/ \E j \in DOMAIN batch, how \in {"ok"} \cup FetchFailures : PlexResponds(j, how)
  \/ \E j \in DOMAIN batch, how \in {"written"} \cup BodyFailures : PlexBody(j, how)
  \/ BatchSettles
  \/ SaveData

SpecPosters == InitPosters /\ [][NextPosters]_vars

\* ---- properties of the poster downloads ---------------------------------

Calls(e) == Cardinality({i \in DOMAIN attempts[e] : attempts[e][i] = "call"})

\* C24: a downloadPoster call that found the file present has sent no
\* request and returned true; any other call asked the image proxy first
\* and the media server only after the proxy attempt failed and only with
\* a configured token; a call that returned true has its file on disk; and
\* a call that returned false leaves the run going.
DownloadPosterContract ==
  \A j \in DOMAIN batch :
     LET b == batch[j]
         sent == attempts[b.key]
     IN /\ b.existed => b.pc = "true" /\ sent = <<"call">>
        /\ ~b.existed =>
              \/ sent = <<"call", "proxy">> /\ b.plex = "none"
              \/ /\ sent = <<"call", "proxy", "plex">>
                 /\ b.proxy \in FetchFailures \cup BodyFailures
                 /\ scriptToken \notin {"", "your_plex_token_here"}
        /\ b.pc \in {"proxy", "proxyBody", "plex", "plexBody", "true", "false"}
        /\ b.pc = "true" =>
              /\ b.key \in posterFiles
              /\ b.existed \/ b.proxy = "written" \/ b.plex = "written"
        /\ b.pc = "false" => run = "awaiting"

\* C24 witness: one call of a batch returned true without a request, and
\* another got its file from the media server after the proxy timed out.
DownloadPosterWitness ==
  \E i, j \in DOMAIN batch :
     /\ batch[i].existed /\ batch[i].pc = "true"
     /\ batch[j].proxy = "timeout" /\ batch[j].plex = "written"
     /\ batch[j].pc = "true"

\* A call returned false without asking the media server: no token.
NoTokenNoFallbackReached ==
  \E j \in DOMAIN batch :
     /\ batch[j].pc = "false" /\ batch[j].proxy = "error"
     /\ attempts[batch[j].key] = <<"call", "proxy">>

\* The run has ended although downloads had failed.
SavedAfterFailuresReached == run = "saved" /\ skipped > 0 /\ downloaded > 0

\* C25: the calls in flight are those of one batch, at most batchSize; no
\* entry of a later batch has been called before the batch settled; no
\* entry is called twice; the counters account for every entry of the
\* batches that settled, and at the end for every entry.
DownloadsRunInBatches ==
  /\ Len(batch) <= batchSize
  /\ \A j \in DOMAIN batch : batch[j].key = entries[batchStart + j]
  /\ \A e \in DOMAIN entries :
       /\ Calls(e) <= 1
       /\ e > batchStart + Len(batch) => attempts[e] = <<>>
       /\ e <= batchStart + Len(batch) => Calls(e) = 1
  /\ downloaded + skipped = Min(batchStart, Len(entries))
  /\ run = "saved" =>
       /\ downloaded + skipped = Len(entries)
       /\ \A e \in DOMAIN entries : Calls(e) = 1

\* C25 witness: the second batch is in flight after a download of the
\* first batch had failed.
DownloadsRunInBatchesWitness ==
  /\ batchStart = batchSize
  /\ skipped > 0
  /\ batch # <<>>
  /\ \E j \in DOMAIN batch : batch[j].pc \in {"proxy", "plex"}

\* A full batch is in flight.
FullBatchInFlightReached ==
  /\ Len(batch) = batchSize
  /\ \A j \in DOMAIN batch : batch[j].pc \in {"proxy", "proxyBody", "plex", "plexBody"}

(***************************************************************************)
(* Properties of the ranking files under POSTs of several sessions.       *)
(***************************************************************************)

\* The array of the last successful POST into the file of content type t.
LastStored(t) == LastPosted(LAMBDA u : SameRankingFile(u, t))

CutShortAfterSuccessReached ==
  /\ posted # <<>>
  /\ reply.route = "POST rankings" /\ reply.status = 500
  /\ files[GetRankingsPath(reply.contentType)] = CutShort

(***************************************************************************)
(* Properties of the views' loads from the client cache.                   *)
(***************************************************************************)

\* What a fresh load of the TV view displays for the snapshot.
FreshShows == DeduplicatedShows(ProcessedShows(snapshot))

\* C27: whenever the TV view has loaded, from the client cache or afresh,
\* it displays the list a fresh load of the same snapshot displays (title
\* duplicates removed, most recently watched first) and the same years.
CachedShowsAreDisplayedShows ==
  (view = "tv" /\ ~loading /\ snapshot # <<>>) =>
     /\ shows = FreshShows
     /\ years = UniqueYears(FreshShows)

\* The years and the episode watches of a load from the cache are those of
\* the fresh load.
CachedYearsAreFreshYears ==
  (view = "tv" /\ ~loading /\ snapshot # <<>>) =>
     /\ years = UniqueYears(FreshShows)
     /\ allWatchData = AllEpisodeWatches(snapshot)

\* The movie view, for comparison: it caches the list it displays.
CachedMoviesAreDisplayedMovies ==
  (view = "movies" /\ ~loading /\ snapshot # <<>>) =>
     movies = DeduplicatedMovies(ProcessedMovies(snapshot))

\* The TV view has loaded from the cache.
ShowsLoadedFromCacheReached ==
  view = "tv" /\ ~loading /\ viewCache # <<>> /\ shows = viewCache[1].processed
  /\ shows # FreshShows

(***************************************************************************)
(* Frame of a POST of rankings.                                            *)
(***************************************************************************)

\* The content types that have a ranking editor in the front end, and the
\* ranking files of the ones other than t.
EditedTypes == {"movies", "tv", "comics"}
FilesOfOtherTypes(t) == {GetRankingsPath(u) : u \in EditedTypes \ {t}}

\* C28: a POST of rankings for a content type, known or not, changes no
\* ranking file of another content type.
PostChangesNoOtherTypesFile ==
  reply.route = "POST rankings" =>
     reply.changed \cap FilesOfOtherTypes(reply.contentType) = {}

\* A POST changes at most the file getRankingsPath gives for its content
\* type, and for 'movies', 'tv' and 'comics' that is no other type's file.
PostChangesOnlyFileOfItsPath ==
  reply.route = "POST rankings" =>
     /\ reply.changed \subseteq {GetRankingsPath(reply.contentType)}
     /\ reply.contentType \in EditedTypes =>
           reply.changed \cap FilesOfOtherTypes(reply.contentType) = {}

\* A POST for 'comics' has changed the comic ranking file.
ComicsPostReached ==
  /\ reply.route = "POST rankings" /\ reply.contentType = "comics"
  /\ reply.changed = {"comic-rankings.json"}

(***************************************************************************)
(* Properties of the ranking editor under overlapping loads and saves.     *)
(***************************************************************************)

\* The save request made last.
LastPost == posts[Len(posts)]

\* C29: the save of an edit made while the editor's load is in flight
\* stores a list (request body and localStorage backup) that still has
\* every entry of the stored ranking.
EditWhileLoadingKeepsStoredEntries ==
  (lastEdit.op = "add" /\ lastEdit.saved /\ isLoading) =>
     \A i \in DOMAIN rankingFile :
        /\ HasKey(LastPost.body, rankingFile[i].rating_key)
        /\ HasKey(localStorage, rankingFile[i].rating_key)

\* The save of an add made after the load has finished keeps every entry
\* the editor showed.
AddAfterLoadKeepsEntries ==
  (lastEdit.op = "add" /\ lastEdit.saved /\ ~isLoading) =>
     \A i \in DOMAIN lastEdit.before :
        /\ HasKey(LastPost.body, lastEdit.before[i].rating_key)
        /\ HasKey(localStorage, lastEdit.before[i].rating_key)

\* The save of an add made during the load has replaced a stored ranking
\* of two entries by the added entry alone.
StoredRankingReplacedReached ==
  /\ Len(rankingFile) = 1 /\ lastSaved = <<rankingFile>>
  /\ isLoading /\ edits = 1 /\ posts = <<>>
  /\ Len(localStorage) = 1

\* C30: once every save has been answered with success, the editor's list,
\* the localStorage backup and the server file all are the list after the
\* last edit, in whatever order the saves were answered.
SavesSettleOnLastEdit ==
  (/\ posts = <<>> /\ lastSaved # <<>> /\ ~saveLog.failed
   /\ activeTab = "admin" /\ ~isLoading) =>
     /\ Keys(adminRankings) = Keys(localStorage)
     /\ rankingFile = localStorage

\* The same for saves that were answered in the order they were made.
SavesInOrderSettleOnLastEdit ==
  (/\ posts = <<>> /\ lastSaved # <<>> /\ ~saveLog.failed /\ ~saveLog.overtaken
   /\ activeTab = "admin" /\ ~isLoading) =>
     /\ Keys(adminRankings) = Keys(localStorage)
     /\ rankingFile = localStorage

\* Two adds were made after the load, the save of the second was answered
\* before the save of the first, and the editor and the file are back at the
\* list after the first add.
OvertakenSaveReached ==
  /\ posts = <<>> /\ saveLog = [overtaken |-> TRUE, failed |-> FALSE]
  /\ activeTab = "admin" /\ ~isLoading /\ edits = 2
  /\ Len(localStorage) = Len(rankingFile) + 1
  /\ adminRankings = rankingFile
  /\ Len(rankingFile) >= 2

\* Two saves were in flight together and were answered in order.
OverlappingSavesInOrderReached ==
  /\ posts = <<>> /\ saveLog = AnsweredInOrder /\ edits = 2
  /\ activeTab = "admin" /\ ~isLoading
  /\ Len(rankingFile) >= 2 /\ rankingFile = localStorage
  /\ adminRankings = rankingFile

Spec == SpecCache

====
